---- MODULE Spec2Model ----
(***************************************************************************)
(* A model of the code-engine worker pool: the WorkerPool, its Worker      *)
(* handles with their Messenger channels (controller side), and the        *)
(* Executor running in each worker thread.                                 *)
(*                                                                         *)
(* One action is one macrotask of the controller's event loop (an API call *)
(* or an event of a worker thread: online, error, exit, message) followed  *)
(* by the microtasks it makes runnable, or one step of an Executor.        *)
(***************************************************************************)
EXTENDS Integers, Sequences, FiniteSets, Bags, TLC

\* ------------------------------------------------------------------ bounds
\* engine.concurrency: the number of workers the pool constructs
NumWorkers == 2
\* how many importFileProcessor / importModule calls are explored
MaxImports == 1
\* how many times processor proxies are invoked when no sequence is advanced
MaxCalls == 5
\* how many times processor proxies are invoked when sequences are advanced
MaxStreams == 2
\* how many of the returned sequences the caller advances
MaxAdvanced == 1
\* how many outputs (files and log records) a plugin produces for one file
MaxOutputs == 3
\* how many import calls are explored when only imports are made
MaxPendingImports == 2
\* the largest ArrayBuffer a file's contents is a view of, in bytes
MaxBytes == 3
\* how many times a file is sent across the thread boundary
MaxSends == 2

\* how many values a custom field of an error can take
MaxFields == 1

\* the values of the data given to importModule
MaxData == 1

\* how many changed files a run carries
MaxChanged == 1

\* how many objects the value given to clone() refers to
MaxObjects == 2

\* how many messages are sent through the Messenger that is followed in detail
MaxMessages == 2

\* how many replies arrive at that Messenger
MaxReplies == 3

\* how many processFile requests have a run, and how many log calls they make in all
MaxRuns == 2
MaxLogs == 2

Workers == 1..NumWorkers
ExitCodes == {0, 1}

\* ------------------------------------------------------------------ values
NoError == [kind |-> "none", worker |-> 0, code |-> 0]

Err(kind, worker, code) == [kind |-> kind, worker |-> worker, code |-> code]

NoReply == [to |-> 0, type |-> "none", file |-> 0, error |-> NoError]

Reply(to, type, file, error) == [to |-> to, type |-> type, file |-> file, error |-> error]

\* the outcome of a reply promise that was rejected rather than resolved
Rejection(to, error) == Reply(to, "rejected", 0, error)

\* what is observed of one call of the pool's API: the method, whether the pool
\* was disposed when it was called, and what it threw
Call(op, wasDisposed, thrown) == [op |-> op, wasDisposed |-> wasDisposed, thrown |-> thrown]

NoCall == Call("none", FALSE, "none")

VARIABLES
  isDisposed,         \* WorkerPool._isDisposed
  workers,            \* WorkerPool._workers
  moduleCounter,      \* WorkerPool._moduleCounter
  roundRobinCounter,  \* WorkerPool._roundRobinCounter
  messageCounter,     \* the messageCounter of the messenger module
  isTerminated,       \* Worker._isTerminated, per worker
  waitUntilOnline,    \* Worker._waitUntilOnline, per worker: [state, error]
  pending,            \* Messenger._pending, per worker: the ids with a waiter
  completed,          \* Messenger._completed, per worker
  thread,             \* the worker thread: "starting", "running", "errored", "exited"
  terminations,       \* how often the thread's own terminate() was requested
  toExec,             \* messages posted to the Executor and not yet received
  toCtrl,             \* replies posted by the Executor and not yet handled
  processors,         \* Executor._processors, per worker: the moduleUIDs registered
  jobs,               \* the message handlers running in each Executor
  imports,            \* the importFileProcessor / importModule calls made
  calls,              \* the sequences returned by processor proxies
  posted,             \* every message given to postMessage
  produced,           \* per message id, the files the plugin has produced
  sink,               \* the bag of errors emitted on the engine (the pool's error sink)
  lastCall,           \* the call of the pool's API made in the last step, if any
  memory,             \* the bytes of every block of memory that backs an ArrayBuffer
  arrayBuffers,       \* the ArrayBuffer objects: their thread, their block, whether detached
  files,              \* per thread, the File it holds (its contents is a view of a buffer)
  sent,               \* the last file message posted across the boundary
  thrown,             \* what plugin code throws, and in which handler of the Executor
  caught,             \* the value caught by the worker-side Messenger._handleMessage
  errorReply,         \* the error of the error reply posted for it
  rejection,          \* the value its waiter was rejected with
  runs,               \* the run of each Worker.processFile call: its message id, worker, debug
  runClones,          \* per worker, the Run objects made by createRun and in the plugin's hands
  logReplies,         \* per worker, the log replies posted and not yet handled
  loggers,            \* per processFile call, what its run's logger was given
  lastLog,            \* the log call made in the last step, if any
  importData,         \* the data given to each import call of the pool
  factories,          \* per worker, the exports of the modules imported, one per request
  registered,         \* Executor._processors, per worker: which function each moduleUID has
  heap,               \* the objects of the value given to clone(), and its depth argument
  cloned,             \* what clone() returned: which object each position refers to
  replied,            \* per worker, every reply its Executor posted, in order
  waiters,            \* one Messenger: the reply promises made by _awaitReply, in order
  pendingWaiters,     \* one Messenger: _pending, from message id to its waiter
  completedIds,       \* one Messenger: _completed, the array of ids
  generators,         \* one Messenger: the postMessageWithReplies generators started
  inbox,              \* one Messenger: the replies on their way to _handleMessage
  errorEvents,        \* one Messenger: the message ids of the "error" events emitted
  lastStep            \* one Messenger: the operation of the last step

vars == <<isDisposed, workers, moduleCounter, roundRobinCounter, messageCounter,
          isTerminated, waitUntilOnline, pending, completed, thread, terminations,
          toExec, toCtrl, processors, jobs, imports, calls, posted, produced,
          sink, lastCall, memory, arrayBuffers, files, sent, thrown, caught, errorReply,
          rejection, runs, runClones, logReplies, loggers, lastLog, importData, factories,
          registered, heap, cloned, replied, waiters, pendingWaiters, completedIds,
          generators, inbox, errorEvents, lastStep>>

\* the values that cross the thread boundary, apart from the pool's own state
fileVars == <<memory, arrayBuffers, files, sent>>

errorVars == <<thrown, caught, errorReply, rejection>>

logVars == <<runs, runClones, logReplies, loggers, lastLog>>

moduleVars == <<importData, factories, registered>>

graphVars == <<heap, cloned>>

replyVars == <<replied>>

channelVars ==
  <<waiters, pendingWaiters, completedIds, generators, inbox, errorEvents, lastStep>>

valueVars == <<fileVars, errorVars, logVars, moduleVars, graphVars, replyVars, channelVars>>

poolVars == <<isDisposed, workers, moduleCounter, roundRobinCounter>>

execVars == <<toExec, processors, jobs, produced>>

MaxIds == MaxPendingImports * NumWorkers + MaxAdvanced

InitProgram ==
  /\ isDisposed = FALSE
  /\ workers = [i \in 1..NumWorkers |-> i]
  /\ moduleCounter = 0
  /\ roundRobinCounter = 0
  /\ messageCounter = 0
  /\ isTerminated = [w \in Workers |-> FALSE]
  /\ waitUntilOnline = [w \in Workers |-> [state |-> "pending", error |-> NoError]]
  /\ pending = [w \in Workers |-> {}]
  /\ completed = [w \in Workers |-> {}]
  /\ thread = [w \in Workers |-> "starting"]
  /\ terminations = [w \in Workers |-> 0]
  /\ toExec = [w \in Workers |-> <<>>]
  /\ toCtrl = [w \in Workers |-> <<>>]
  /\ processors = [w \in Workers |-> {}]
  /\ jobs = [w \in Workers |-> {}]
  /\ imports = <<>>
  /\ calls = <<>>
  /\ posted = {}
  /\ produced = [m \in 1..MaxIds |-> <<>>]
  /\ sink = EmptyBag
  /\ lastCall = NoCall

\* ------------------------------------------------------------------ files
Threads == {"main", "worker"}
Bytes == 0..1
BufferIds == 1..(MaxSends + 1)

NoContents == [buffer |-> 0, byteOffset |-> 0, length |-> 0]
NoFile == [exists |-> FALSE, contents |-> NoContents]
File(contents) == [exists |-> TRUE, contents |-> contents]
NoBuffer == [thread |-> "none", block |-> 0, detached |-> FALSE]
NothingSent == [n |-> 0, from |-> "none", transferList |-> <<>>, thrown |-> "none"]

\* no file has been created yet
InitNoFile ==
  /\ memory = [k \in BufferIds |-> <<>>]
  /\ arrayBuffers = [b \in BufferIds |-> NoBuffer]
  /\ files = [t \in Threads |-> NoFile]
  /\ sent = NothingSent

\* no value: nothing was thrown, posted or rejected
NoValue == [type |-> "none"]

\* no handler has thrown yet
InitNoError ==
  /\ thrown = [handler |-> "none", value |-> NoValue]
  /\ caught = NoValue
  /\ errorReply = NoValue
  /\ rejection = NoValue

NoLog == [method |-> "none", messageId |-> 0, message |-> NoValue]

\* no file is being processed yet
InitNoRun ==
  /\ runs = <<>>
  /\ runClones = [w \in Workers |-> {}]
  /\ logReplies = [w \in Workers |-> <<>>]
  /\ loggers = <<>>
  /\ lastLog = NoLog

\* no module has been imported yet
InitNoModule ==
  /\ importData = <<>>
  /\ factories = [w \in Workers |-> {}]
  /\ registered = [w \in Workers |-> {}]

\* clone() has not been given a value yet
NoGraph == [depth |-> 0, kinds |-> <<>>, refs |-> <<>>]

NotCloned == [state |-> "none"]

InitNoGraph ==
  /\ heap = NoGraph
  /\ cloned = NotCloned

\* no Executor has replied yet
InitNoReply == replied = [w \in Workers |-> <<>>]

\* a Messenger after construction
\* what the last step did: the operation, the message id it was about, and
\* whether that id had a waiter in _pending when the step began
Step(op, to, wasPending) == [op |-> op, to |-> to, wasPending |-> wasPending]

NoStep == Step("none", 0, FALSE)

InitChannel ==
  /\ waiters = <<>>
  /\ pendingWaiters = <<>>
  /\ completedIds = <<>>
  /\ generators = <<>>
  /\ inbox = <<>>
  /\ errorEvents = <<>>
  /\ lastStep = NoStep

InitValues ==
  /\ InitNoFile /\ InitNoError /\ InitNoRun /\ InitNoModule /\ InitNoGraph /\ InitNoReply
  /\ InitChannel

Init == InitProgram /\ InitValues

\* ------------------------------------------------------------------ helpers
\* the k-th smallest element of a set of numbers: waiters of one promise are
\* resumed in the order in which they started to wait
Nth(S, k) == CHOOSE x \in S : Cardinality({y \in S : y <= x}) = k

Message(id, type, moduleUID) == [id |-> id, type |-> type, moduleUID |-> moduleUID]

Posted(id, w, type, moduleUID) == [id |-> id, worker |-> w, type |-> type, moduleUID |-> moduleUID]

\* a Promise.all that resolves as soon as one worker has imported the module
ImportAfterAnyWorker(imp, w, s) ==
  LET failed == s.type \in {"rejected", "error"}
  IN [imp EXCEPT
        !.st = [@ EXCEPT ![w] = IF failed THEN "failed" ELSE "ok"],
        !.errors = [@ EXCEPT ![w] = IF failed THEN s.error ELSE @],
        !.replied = [@ EXCEPT ![w] = s.type],
        !.failures = IF failed THEN Append(@, w) ELSE @,
        !.result = IF @ # "pending" THEN @ ELSE IF failed THEN "rejected" ELSE "resolved",
        !.error = IF imp.result = "pending" /\ failed THEN s.error ELSE @]

\* a join that reports the error of the last worker that failed
ImportAfterLastError(imp, w, s) ==
  LET failed == s.type \in {"rejected", "error"}
      st == [imp.st EXCEPT ![w] = IF failed THEN "failed" ELSE "ok"]
  IN [imp EXCEPT
        !.st = st,
        !.errors = [@ EXCEPT ![w] = IF failed THEN s.error ELSE @],
        !.replied = [@ EXCEPT ![w] = s.type],
        !.failures = IF failed THEN Append(@, w) ELSE @,
        !.result = IF @ = "resolved" THEN @
                   ELSE IF failed THEN "rejected"
                   ELSE IF \A v \in Workers : st[v] = "ok" THEN "resolved"
                   ELSE @,
        !.error = IF failed THEN s.error ELSE @]

\* Promise.all over the workers' import promises, after worker w's promise settled
\* with `s`: the first rejection rejects the whole call, the last success resolves it
ImportAfter(imp, w, s) ==
  LET failed == s.type \in {"rejected", "error"}
      st == [imp.st EXCEPT ![w] = IF failed THEN "failed" ELSE "ok"]
  IN [imp EXCEPT
        !.st = st,
        !.errors = [@ EXCEPT ![w] = IF failed THEN s.error ELSE @],
        !.replied = [@ EXCEPT ![w] = s.type],
        !.failures = IF failed THEN Append(@, w) ELSE @,
        !.result = IF @ # "pending" THEN @
                   ELSE IF failed THEN "rejected"
                   ELSE IF \A v \in Workers : st[v] = "ok" THEN "resolved"
                   ELSE "pending",
        !.error = IF imp.result = "pending" /\ failed THEN s.error ELSE @]

\* postMessageWithReplies and the loop of Worker.processFile, resumed with the
\* outcome `s` of the reply promise they await
CallAfter(call, s) ==
  IF s.type \in {"rejected", "error"}
    THEN [call EXCEPT !.phase = "failed", !.error = s.error, !.nextReply = NoReply]
  ELSE IF s.type = "finished"
    THEN [call EXCEPT !.phase = "done", !.nextReply = NoReply]
  ELSE IF s.type = "log"
    THEN [call EXCEPT !.phase = "awaiting", !.logged = @ + 1, !.nextReply = NoReply]
  ELSE [call EXCEPT !.phase = "yielded", !.yielded = Append(@, s.file), !.nextReply = NoReply]

\* the replies after which postMessageWithReplies registers the next waiter
RegistersNext(s) == s.type \notin {"rejected", "error", "finished"}

\* a channel that settles every waiter of the worker with the outcome of one
ImportsSettledTogether(w, S) ==
  [i \in DOMAIN imports |->
     IF imports[i].st[w] = "sent" /\ DOMAIN S # {}
       THEN ImportAfter(imports[i], w, S[CHOOSE id \in DOMAIN S : TRUE])
       ELSE imports[i]]

\* the import calls after the waiters of worker w named in S were settled
ImportsSettled(w, S) ==
  [i \in DOMAIN imports |->
     IF imports[i].st[w] = "sent" /\ imports[i].id[w] \in DOMAIN S
       THEN ImportAfter(imports[i], w, S[imports[i].id[w]])
       ELSE imports[i]]

\* the processFile sequences after the waiters of worker w named in S were settled:
\* a sequence awaiting its reply runs on; one suspended at its yield only finds
\* the outcome when it is resumed
CallsSettled(w, S) ==
  [c \in DOMAIN calls |->
     IF calls[c].worker = w /\ calls[c].id \in DOMAIN S
       THEN IF calls[c].phase = "awaiting" THEN CallAfter(calls[c], S[calls[c].id])
            ELSE IF calls[c].phase = "yielded" THEN [calls[c] EXCEPT !.nextReply = S[calls[c].id]]
            ELSE calls[c]
       ELSE calls[c]]

\* the ids whose next waiter is registered while the outcomes S are consumed
Reregistered(w, S) ==
  {calls[c].id : c \in {d \in DOMAIN calls :
      /\ calls[d].worker = w
      /\ calls[d].id \in DOMAIN S
      /\ calls[d].phase = "awaiting"
      /\ RegistersNext(S[calls[d].id])}}

\* the operations of worker w that wait for it to come online
ImportsAtGate(w) == {i \in DOMAIN imports : imports[i].st[w] = "gate"}

CallsAtGate(w) == {c \in DOMAIN calls : calls[c].worker = w /\ calls[c].phase = "gate"}

\* a gate rejection that leaves the imports waiting at the gate as they are
ImportsLeftAtGate(w, error, imps) == imps

\* the operations waiting at the gate of worker w fail with the gate's error
ImportsGateRejected(w, error, imps) ==
  [i \in DOMAIN imps |->
     IF imps[i].st[w] = "gate" THEN ImportAfter(imps[i], w, Rejection(0, error)) ELSE imps[i]]

CallsGateRejected(w, error, cs) ==
  [c \in DOMAIN cs |->
     IF cs[c].worker = w /\ cs[c].phase = "gate"
       THEN [cs[c] EXCEPT !.phase = "failed", !.error = error]
       ELSE cs[c]]

\* ------------------------------------------------------------------ WorkerPool
PoolWorkers == {workers[i] : i \in DOMAIN workers}

\* worker.importFileProcessor(message) / worker.importModule(message) for every
\* worker of the pool, joined by Promise.all: a worker that is online is sent the
\* message at once, one that is not yet online is waited for, one whose gate was
\* rejected fails the call
ImportInWorkers(type, moduleUID) ==
  LET onlineNow == {w \in PoolWorkers : waitUntilOnline[w].state = "resolved"}
      rejectedNow == {w \in PoolWorkers : waitUntilOnline[w].state = "rejected"}
      idOf(w) == messageCounter + Cardinality({v \in onlineNow : v <= w})
      imp == [type |-> type,
              moduleUID |-> moduleUID,
              st |-> [w \in Workers |-> IF w \in onlineNow THEN "sent"
                                        ELSE IF w \in rejectedNow THEN "failed"
                                        ELSE "gate"],
              id |-> [w \in Workers |-> IF w \in onlineNow THEN idOf(w) ELSE 0],
              errors |-> [w \in Workers |-> IF w \in rejectedNow
                                              THEN waitUntilOnline[w].error ELSE NoError],
              replied |-> [w \in Workers |-> IF w \in rejectedNow THEN "rejected" ELSE "none"],
              failures |-> [k \in 1..Cardinality(rejectedNow) |-> Nth(rejectedNow, k)],
              result |-> IF rejectedNow # {} THEN "rejected" ELSE "pending",
              error |-> IF rejectedNow # {}
                          THEN waitUntilOnline[Nth(rejectedNow, 1)].error ELSE NoError]
  IN /\ imports' = Append(imports, imp)
     /\ messageCounter' = messageCounter + Cardinality(onlineNow)
     /\ pending' = [w \in Workers |->
                      IF w \in onlineNow THEN pending[w] \cup {idOf(w)} ELSE pending[w]]
     /\ posted' = posted \cup {Posted(idOf(w), w, type, moduleUID) : w \in onlineNow}
     /\ toExec' = [w \in Workers |->
                     IF w \in onlineNow /\ thread[w] # "exited"
                       THEN Append(toExec[w], Message(idOf(w), type, moduleUID))
                       ELSE toExec[w]]

\* an importFileProcessor that reads the counter and does not advance it
importFileProcessorSameUID(n) ==
  /\ Len(imports) < n
  /\ IF isDisposed
    THEN /\ lastCall' = Call("importFileProcessor", TRUE, "PoolDisposed")
         /\ UNCHANGED <<poolVars, messageCounter, isTerminated, waitUntilOnline, pending,
                        completed, thread, terminations, toCtrl, execVars, imports, calls,
                        posted, sink>>
    ELSE /\ moduleCounter' = moduleCounter
         /\ ImportInWorkers("importFileProcessor", moduleCounter + 1)
         /\ lastCall' = Call("importFileProcessor", FALSE, "none")
         /\ UNCHANGED <<isDisposed, workers, roundRobinCounter, isTerminated, waitUntilOnline,
                        completed, thread, terminations, toCtrl, processors, jobs, produced,
                        calls, sink>>

\* WorkerPool.importFileProcessor, while fewer than n import calls have been made
importFileProcessorUpTo(n) ==
  /\ Len(imports) < n
  /\ IF isDisposed
    THEN /\ lastCall' = Call("importFileProcessor", TRUE, "PoolDisposed")
         /\ UNCHANGED <<poolVars, messageCounter, isTerminated, waitUntilOnline, pending,
                        completed, thread, terminations, toCtrl, execVars, imports, calls,
                        posted, sink>>
    ELSE /\ moduleCounter' = moduleCounter + 1
         /\ ImportInWorkers("importFileProcessor", moduleCounter + 1)
         /\ lastCall' = Call("importFileProcessor", FALSE, "none")
         /\ UNCHANGED <<isDisposed, workers, roundRobinCounter, isTerminated, waitUntilOnline,
                        completed, thread, terminations, toCtrl, processors, jobs, produced,
                        calls, sink>>

importFileProcessor == importFileProcessorUpTo(MaxImports)

\* an importModule that does not assert that the pool is live
importModuleUnchecked ==
  /\ Len(imports) < MaxImports
  /\ ImportInWorkers("importModule", 0)
  /\ lastCall' = Call("importModule", isDisposed, "none")
  /\ UNCHANGED <<poolVars, isTerminated, waitUntilOnline,
                 completed, thread, terminations, toCtrl, processors, jobs, produced,
                 calls, sink>>

\* WorkerPool.importModule, while fewer than n import calls have been made
importModuleUpTo(n) ==
  /\ Len(imports) < n
  /\ IF isDisposed
    THEN /\ lastCall' = Call("importModule", TRUE, "PoolDisposed")
         /\ UNCHANGED <<poolVars, messageCounter, isTerminated, waitUntilOnline, pending,
                        completed, thread, terminations, toCtrl, execVars, imports, calls,
                        posted, sink>>
    ELSE /\ ImportInWorkers("importModule", 0)
         /\ lastCall' = Call("importModule", FALSE, "none")
         /\ UNCHANGED <<poolVars, isTerminated, waitUntilOnline,
                        completed, thread, terminations, toCtrl, processors, jobs, produced,
                        calls, sink>>

importModule == importModuleUpTo(MaxImports)

\* a selection that never advances past the first worker
selectFirstWorker == IF Len(workers) = 0 THEN 0 ELSE workers[1]

\* WorkerPool._select
select == IF Len(workers) = 0 THEN 0 ELSE workers[(roundRobinCounter % Len(workers)) + 1]

\* a proxy whose sequence starts when it is made: the message is posted and the
\* waiter registered by the invocation
InvokeEagerly(i) ==
  /\ i \in DOMAIN imports
  /\ imports[i].type = "importFileProcessor"
  /\ imports[i].result = "resolved"
  /\ roundRobinCounter < MaxCalls
  /\ roundRobinCounter' = roundRobinCounter + 1
  /\ IF select = 0
       THEN /\ lastCall' = Call("processor", isDisposed, "TypeError")
            /\ UNCHANGED <<calls, messageCounter, pending, posted, toExec>>
       ELSE /\ lastCall' = Call("processor", isDisposed, "none")
            /\ calls' = Append(calls,
                 [proxy |-> i, moduleUID |-> imports[i].moduleUID, worker |-> select,
                  phase |-> "awaiting", id |-> messageCounter + 1, nextReply |-> NoReply,
                  yielded |-> <<>>, logged |-> 0, lost |-> 0, error |-> NoError])
            /\ messageCounter' = messageCounter + 1
            /\ pending' = [pending EXCEPT ![select] = @ \cup {messageCounter + 1}]
            /\ posted' = posted \cup
                 {Posted(messageCounter + 1, select, "processFile", imports[i].moduleUID)}
            /\ toExec' = [toExec EXCEPT ![select] =
                 Append(@, Message(messageCounter + 1, "processFile", imports[i].moduleUID))]
  /\ UNCHANGED <<isDisposed, workers, moduleCounter, isTerminated, waitUntilOnline, completed,
                 thread, terminations, toCtrl, processors, jobs, produced, imports, sink>>

\* the processor proxy returned by the import call i, invoked as (file, run):
\* it selects a worker and returns that worker's processFile sequence, not yet started
Invoke(i) ==
  /\ i \in DOMAIN imports
  /\ imports[i].type = "importFileProcessor"
  /\ imports[i].result = "resolved"
  /\ roundRobinCounter < MaxCalls
  /\ roundRobinCounter' = roundRobinCounter + 1
  /\ IF select = 0
       THEN /\ lastCall' = Call("processor", isDisposed, "TypeError")
            /\ calls' = calls
       ELSE /\ lastCall' = Call("processor", isDisposed, "none")
            /\ calls' = Append(calls,
                 [proxy |-> i, moduleUID |-> imports[i].moduleUID, worker |-> select,
                  phase |-> "created", id |-> 0, nextReply |-> NoReply, yielded |-> <<>>,
                  logged |-> 0, lost |-> 0, error |-> NoError])
  /\ UNCHANGED <<isDisposed, workers, moduleCounter, messageCounter, isTerminated,
                 waitUntilOnline, pending, completed, thread, terminations, toCtrl,
                 execVars, imports, posted, sink>>

\* a dispose() that keeps its workers and terminates them whatever their state
disposeKeepingWorkers ==
  /\ isDisposed' = TRUE
  /\ workers' = workers
  /\ isTerminated' = [w \in Workers |-> IF w \in PoolWorkers THEN TRUE ELSE isTerminated[w]]
  /\ terminations' = [w \in Workers |->
        IF w \in PoolWorkers /\ terminations[w] < 2 THEN terminations[w] + 1 ELSE terminations[w]]
  /\ lastCall' = Call("dispose", isDisposed, "none")
  /\ UNCHANGED <<moduleCounter, roundRobinCounter, messageCounter, waitUntilOnline, pending,
                 completed, thread, toCtrl, execVars, imports, calls, posted, sink>>

\* Worker.terminate for every worker of the pool
dispose ==
  /\ isDisposed' = TRUE
  /\ workers' = <<>>
  /\ isTerminated' = [w \in Workers |-> IF w \in PoolWorkers THEN TRUE ELSE isTerminated[w]]
  /\ terminations' = [w \in Workers |->
        IF w \in PoolWorkers /\ ~isTerminated[w] THEN terminations[w] + 1 ELSE terminations[w]]
  /\ lastCall' = Call("dispose", isDisposed, "none")
  /\ UNCHANGED <<moduleCounter, roundRobinCounter, messageCounter, waitUntilOnline, pending,
                 completed, thread, toCtrl, execVars, imports, calls, posted, sink>>

\* ------------------------------------------------------------------ Worker
\* the caller asks the sequence c for its next item: the first request starts
\* Worker.processFile, a later one resumes it at its yield
CallerNext(c) ==
  /\ c \in DOMAIN calls
  /\ LET call == calls[c]
         w == call.worker
         id == messageCounter + 1
     IN \/ /\ call.phase = "created"
           /\ Cardinality({d \in DOMAIN calls : calls[d].phase # "created"}) < MaxAdvanced
           /\ IF waitUntilOnline[w].state = "resolved"
                THEN /\ calls' = [calls EXCEPT ![c] = [call EXCEPT !.phase = "awaiting", !.id = id]]
                     /\ messageCounter' = id
                     /\ pending' = [pending EXCEPT ![w] = @ \cup {id}]
                     /\ posted' = posted \cup {Posted(id, w, "processFile", call.moduleUID)}
                     /\ toExec' = [toExec EXCEPT ![w] =
                          IF thread[w] # "exited"
                            THEN Append(@, Message(id, "processFile", call.moduleUID)) ELSE @]
                ELSE /\ calls' = [calls EXCEPT ![c] =
                          IF waitUntilOnline[w].state = "pending"
                            THEN [call EXCEPT !.phase = "gate"]
                            ELSE [call EXCEPT !.phase = "failed",
                                              !.error = waitUntilOnline[w].error]]
                     /\ UNCHANGED <<messageCounter, pending, posted, toExec>>
        \/ /\ call.phase = "yielded"
           /\ IF call.nextReply = NoReply
                THEN /\ calls' = [calls EXCEPT ![c] = [call EXCEPT !.phase = "awaiting"]]
                     /\ pending' = pending
                ELSE /\ calls' = [calls EXCEPT ![c] = CallAfter(call, call.nextReply)]
                     /\ pending' = [pending EXCEPT ![w] =
                          IF RegistersNext(call.nextReply) THEN @ \cup {call.id} ELSE @]
           /\ UNCHANGED <<messageCounter, posted, toExec>>
  /\ UNCHANGED <<poolVars, isTerminated, waitUntilOnline, completed, thread, terminations,
                 toCtrl, processors, jobs, produced, imports, sink>>
  /\ lastCall' = NoCall

\* the thread's "online" event: the gate opens and the operations waiting at it
\* post their messages, in the order in which they began to wait
Online(w) ==
  /\ thread[w] = "starting"
  /\ LET I == ImportsAtGate(w)
         C == CallsAtGate(w)
         nI == Cardinality(I)
         nC == Cardinality(C)
         importId(i) == messageCounter + Cardinality({j \in I : j <= i})
         callId(c) == messageCounter + nI + Cardinality({d \in C : d <= c})
         msgs == [k \in 1..(nI + nC) |->
                    IF k <= nI
                      THEN Message(messageCounter + k, imports[Nth(I, k)].type,
                                   imports[Nth(I, k)].moduleUID)
                      ELSE Message(messageCounter + k, "processFile",
                                   calls[Nth(C, k - nI)].moduleUID)]
     IN /\ thread' = [thread EXCEPT ![w] = "running"]
        /\ waitUntilOnline' = [waitUntilOnline EXCEPT ![w].state = "resolved"]
        /\ imports' = [i \in DOMAIN imports |->
                         IF i \in I
                           THEN [imports[i] EXCEPT !.st[w] = "sent", !.id[w] = importId(i)]
                           ELSE imports[i]]
        /\ calls' = [c \in DOMAIN calls |->
                       IF c \in C
                         THEN [calls[c] EXCEPT !.phase = "awaiting", !.id = callId(c)]
                         ELSE calls[c]]
        /\ messageCounter' = messageCounter + nI + nC
        /\ pending' = [pending EXCEPT ![w] = @ \cup {msgs[k].id : k \in 1..(nI + nC)}]
        /\ posted' = posted \cup
             {Posted(msgs[k].id, w, msgs[k].type, msgs[k].moduleUID) : k \in 1..(nI + nC)}
        /\ toExec' = [toExec EXCEPT ![w] = @ \o msgs]
  /\ UNCHANGED <<poolVars, isTerminated, completed, terminations, toCtrl, processors,
                 jobs, produced, sink>>
  /\ lastCall' = NoCall

\* the thread's "error" event (an uncaught exception in the worker thread): it
\* rejects the gate when the worker is not yet online and is re-emitted by the pool
ThreadError(w) ==
  /\ thread[w] \in {"starting", "running"}
  /\ LET error == Err("Crash", w, 1)
         atGate == waitUntilOnline[w].state = "pending"
     IN /\ thread' = [thread EXCEPT ![w] = "errored"]
        /\ waitUntilOnline' = [waitUntilOnline EXCEPT ![w] =
             IF atGate THEN [state |-> "rejected", error |-> error] ELSE @]
        /\ imports' = IF atGate THEN ImportsGateRejected(w, error, imports) ELSE imports
        /\ calls' = IF atGate THEN CallsGateRejected(w, error, calls) ELSE calls
        /\ sink' = sink (+) SetToBag({error})
  /\ UNCHANGED <<poolVars, messageCounter, isTerminated, pending, completed, terminations,
                 toExec, toCtrl, processors, jobs, produced, posted>>
  /\ lastCall' = NoCall

\* an exit handler that clears the table and rejects nobody
rejectNoPendingMessages(w, error) == [id \in {} |-> Rejection(id, error)]

\* Messenger.rejectAllPendingMessages, as the outcomes it hands to the waiters
rejectAllPendingMessages(w, error) == [id \in pending[w] |-> Rejection(id, error)]

\* the thread's "exit" event: the exit handler of awaitOnline, then Worker._handleExit
ThreadExit(w, exitCode) ==
  /\ thread[w] # "exited"
  /\ thread[w] = "errored" => exitCode = 1
  /\ LET atGate == waitUntilOnline[w].state = "pending"
         gateError == Err("ExitedBeforeOnline", w, exitCode)
         error == IF isTerminated[w] THEN Err("Terminating", w, 0)
                  ELSE Err("UnexpectedExit", w, exitCode)
         S == rejectAllPendingMessages(w, error)
     IN /\ thread' = [thread EXCEPT ![w] = "exited"]
        /\ waitUntilOnline' = [waitUntilOnline EXCEPT ![w] =
             IF atGate THEN [state |-> "rejected", error |-> gateError] ELSE @]
        /\ isTerminated' = [isTerminated EXCEPT ![w] = TRUE]
        /\ sink' = IF isTerminated[w] THEN sink ELSE sink (+) SetToBag({error})
        /\ pending' = [pending EXCEPT ![w] = {}]
        /\ completed' = [completed EXCEPT ![w] = @ \cup pending[w]]
        /\ imports' = IF atGate THEN ImportsGateRejected(w, gateError, imports)
                      ELSE ImportsSettled(w, S)
        /\ calls' = IF atGate THEN CallsGateRejected(w, gateError, calls)
                    ELSE CallsSettled(w, S)
        /\ toExec' = [toExec EXCEPT ![w] = <<>>]
        /\ toCtrl' = [toCtrl EXCEPT ![w] = <<>>]
        /\ jobs' = [jobs EXCEPT ![w] = {}]
  /\ UNCHANGED <<poolVars, messageCounter, terminations, processors, produced, posted>>
  /\ lastCall' = NoCall

\* Messenger._handleMessage (controller side): a reply of the Executor arrives
HandleReply(w) ==
  /\ toCtrl[w] # <<>>
  /\ LET reply == Head(toCtrl[w])
         S == [id \in {reply.to} |-> reply]
     IN /\ toCtrl' = [toCtrl EXCEPT ![w] = Tail(@)]
        /\ IF reply.to \in pending[w]
             THEN /\ pending' = [pending EXCEPT ![w] = (@ \ {reply.to}) \cup Reregistered(w, S)]
                  /\ completed' = [completed EXCEPT ![w] = @ \cup {reply.to}]
                  /\ imports' = ImportsSettled(w, S)
                  /\ calls' = CallsSettled(w, S)
                  /\ sink' = sink
             ELSE IF reply.to \in completed[w]
               THEN /\ calls' = [c \in DOMAIN calls |->
                         IF calls[c].worker = w /\ calls[c].id = reply.to
                           THEN [calls[c] EXCEPT !.lost = @ + 1] ELSE calls[c]]
                    /\ UNCHANGED <<pending, completed, imports, sink>>
               ELSE /\ sink' = sink (+) SetToBag({Err("InvalidMessageID", w, reply.to)})
                    /\ UNCHANGED <<pending, completed, imports, calls>>
  /\ UNCHANGED <<poolVars, messageCounter, isTerminated, waitUntilOnline, thread,
                 terminations, execVars, posted>>
  /\ lastCall' = NoCall

\* ------------------------------------------------------------------ Executor
\* Messenger._handleMessage (worker side): a message arrives and its handler starts
ExecutorReceive(w) ==
  /\ thread[w] = "running"
  /\ toExec[w] # <<>>
  /\ toExec' = [toExec EXCEPT ![w] = Tail(@)]
  /\ jobs' = [jobs EXCEPT ![w] = @ \cup {Head(toExec[w])}]
  /\ UNCHANGED <<poolVars, messageCounter, isTerminated, waitUntilOnline, pending, completed,
                 thread, terminations, toCtrl, processors, produced, imports, calls, posted,
                 sink>>
  /\ lastCall' = NoCall

\* a postReply that loses the id of the message it answers
postReplyUnaddressed(w, reply) == [toCtrl EXCEPT ![w] = Append(@, [reply EXCEPT !.to = 0])]

\* Messenger.postReply
postReply(w, reply) == [toCtrl EXCEPT ![w] = Append(@, reply)]

\* Executor.importFileProcessor: the module exports a processor (or its factory
\* makes one), which is registered and reported, or the import fails and the
\* handler's catch replies with the error
ExecutorImportFileProcessor(w, job, ok) ==
  /\ thread[w] = "running"
  /\ job \in jobs[w]
  /\ job.type = "importFileProcessor"
  /\ jobs' = [jobs EXCEPT ![w] = @ \ {job}]
  /\ IF ok
       THEN /\ processors' = [processors EXCEPT ![w] = @ \cup {job.moduleUID}]
            /\ toCtrl' = postReply(w, Reply(job.id, "fileProcessorImported", 0, NoError))
       ELSE /\ processors' = processors
            /\ toCtrl' = postReply(w, Reply(job.id, "error", 0, Err("ImportError", w, 0)))
  /\ UNCHANGED <<poolVars, messageCounter, isTerminated, waitUntilOnline, pending, completed,
                 thread, terminations, toExec, produced, imports, calls, posted, sink>>
  /\ lastCall' = NoCall

\* Executor.importModule
ExecutorImportModule(w, job, ok) ==
  /\ thread[w] = "running"
  /\ job \in jobs[w]
  /\ job.type = "importModule"
  /\ jobs' = [jobs EXCEPT ![w] = @ \ {job}]
  /\ toCtrl' = postReply(w, IF ok THEN Reply(job.id, "finished", 0, NoError)
                            ELSE Reply(job.id, "error", 0, Err("ImportError", w, 0)))
  /\ UNCHANGED <<poolVars, messageCounter, isTerminated, waitUntilOnline, pending, completed,
                 thread, terminations, toExec, processors, produced, imports, calls, posted,
                 sink>>
  /\ lastCall' = NoCall

\* Executor.processFile, one step: the plugin produces a file or logs through the
\* run, its output ends, or it throws
ExecutorProcessFile(w, job, out) ==
  /\ thread[w] = "running"
  /\ job \in jobs[w]
  /\ job.type = "processFile"
  /\ out \in {"file", "log"} => Len(produced[job.id]) < MaxOutputs
  /\ IF job.moduleUID \notin processors[w]
       THEN /\ out = "error"
            /\ toCtrl' = postReply(w, Reply(job.id, "error", 0, Err("TypeError", w, 0)))
            /\ jobs' = [jobs EXCEPT ![w] = @ \ {job}]
            /\ produced' = produced
       ELSE /\ out \in {"file", "log", "finished", "error"}
            /\ toCtrl' = postReply(w,
                 IF out = "error" THEN Reply(job.id, "error", 0, Err("PluginError", w, 0))
                 ELSE Reply(job.id, out, IF out = "file" THEN Len(produced[job.id]) + 1 ELSE 0,
                            NoError))
            /\ jobs' = [jobs EXCEPT ![w] = IF out \in {"finished", "error"} THEN @ \ {job} ELSE @]
            /\ produced' = [produced EXCEPT ![job.id] =
                 IF out = "file" THEN Append(@, Len(@) + 1)
                 ELSE IF out = "log" THEN Append(@, 0) ELSE @]
  /\ UNCHANGED <<poolVars, messageCounter, isTerminated, waitUntilOnline, pending, completed,
                 thread, terminations, toExec, processors, imports, calls, posted, sink>>
  /\ lastCall' = NoCall

\* ------------------------------------------------------------------ specification
Next ==
  \/ importFileProcessor /\ UNCHANGED valueVars
  \/ importModule /\ UNCHANGED valueVars
  \/ \E i \in 1..MaxImports : roundRobinCounter < MaxStreams /\ Invoke(i) /\ UNCHANGED valueVars
  \/ dispose /\ UNCHANGED valueVars
  \/ \E c \in 1..MaxCalls : CallerNext(c) /\ UNCHANGED valueVars
  \/ \E w \in Workers : Online(w) /\ UNCHANGED valueVars
  \/ \E w \in Workers : ThreadError(w) /\ UNCHANGED valueVars
  \/ \E w \in Workers, exitCode \in ExitCodes : ThreadExit(w, exitCode) /\ UNCHANGED valueVars
  \/ \E w \in Workers : HandleReply(w) /\ UNCHANGED valueVars
  \/ \E w \in Workers : ExecutorReceive(w) /\ UNCHANGED valueVars
  \/ \E w \in Workers : \E job \in jobs[w], ok \in BOOLEAN : ExecutorImportFileProcessor(w, job, ok) /\ UNCHANGED valueVars
  \/ \E w \in Workers : \E job \in jobs[w], ok \in BOOLEAN : ExecutorImportModule(w, job, ok) /\ UNCHANGED valueVars
  \/ \E w \in Workers : \E job \in jobs[w], out \in {"file", "log", "finished", "error"} :
       ExecutorProcessFile(w, job, out) /\ UNCHANGED valueVars

Spec == Init /\ [][Next]_vars

\* the specification of the pool when no returned sequence is advanced
NextSelect ==
  \/ importFileProcessor /\ UNCHANGED valueVars
  \/ \E i \in 1..MaxImports : Invoke(i) /\ UNCHANGED valueVars
  \/ dispose /\ UNCHANGED valueVars
  \/ \E w \in Workers : Online(w) /\ UNCHANGED valueVars
  \/ \E w \in Workers, exitCode \in ExitCodes : ThreadExit(w, exitCode) /\ UNCHANGED valueVars
  \/ \E w \in Workers : HandleReply(w) /\ UNCHANGED valueVars
  \/ \E w \in Workers : ExecutorReceive(w) /\ UNCHANGED valueVars
  \/ \E w \in Workers : \E job \in jobs[w], ok \in BOOLEAN : ExecutorImportFileProcessor(w, job, ok) /\ UNCHANGED valueVars

SelectSpec == Init /\ [][NextSelect]_vars

\* ------------------------------------------------------------------ properties
\* a size that counts only the workers of the pool that are not terminated
sizeLive == Cardinality({w \in PoolWorkers : ~isTerminated[w]})

\* WorkerPool.size
size == Len(workers)

\* the program's state: everything but the observation of the last call
programVars == <<isDisposed, workers, moduleCounter, roundRobinCounter, messageCounter,
                 isTerminated, waitUntilOnline, pending, completed, thread, terminations,
                 toExec, toCtrl, processors, jobs, imports, calls, posted, produced, sink>>

\* the files among what a plugin produced (a log record is written as 0)
Files(outputs) == SelectSeq(outputs, LAMBDA x : x > 0)

IsPrefix(a, b) == Len(a) <= Len(b) /\ \A k \in 1..Len(a) : a[k] = b[k]

C2_NoReplyDropped == \A c \in DOMAIN calls : calls[c].lost = 0

\* C3: the files yielded to the caller of a processFile call are the files the
\* plugin produced, in the same order, and when the sequence ends it has yielded
\* all of them.
C3_YieldedAreProduced ==
  \A c \in DOMAIN calls :
    calls[c].id # 0 =>
      /\ IsPrefix(calls[c].yielded, Files(produced[calls[c].id]))
      /\ calls[c].phase = "done" => calls[c].yielded = Files(produced[calls[c].id])

\* the worker thread of w exits in this step
Exits(w) == thread[w] # "exited" /\ thread'[w] = "exited"

\* the requests of worker w that have a waiter in its pending table
ImportsPending(w) == {i \in DOMAIN imports : imports[i].st[w] = "sent" /\ imports[i].id[w] \in pending[w]}

CallsPending(w) == {c \in DOMAIN calls : calls[c].worker = w /\ calls[c].id \in pending[w]}

\* the waiters of the requests I and C of worker w are rejected with `error` in this step
RejectedWith(w, I, C, error) ==
  /\ \A i \in I : imports'[i].st[w] = "failed" /\ imports'[i].errors[w] = error
  /\ \A c \in C :
       /\ calls[c].phase = "awaiting" => calls'[c].phase = "failed" /\ calls'[c].error = error
       /\ calls[c].phase = "yielded" => calls'[c].nextReply = Rejection(calls[c].id, error)

UnexpectedExits == {Err("UnexpectedExit", w, code) : w \in Workers, code \in ExitCodes}

\* C4: when a worker thread exits and terminate() was not called on its handle,
\* every request in the worker's pending table is rejected with UnexpectedExit(code),
\* the worker is marked terminated, that error is emitted to the sink once and
\* never again, and what is pending on the other workers stays pending.
C4_UnexpectedExit ==
  [][/\ \A w \in Workers : (Exits(w) /\ ~isTerminated[w]) =>
          \E code \in ExitCodes :
            LET error == Err("UnexpectedExit", w, code)
            IN /\ isTerminated'[w]
               /\ pending'[w] = {}
               /\ RejectedWith(w, ImportsPending(w), CallsPending(w), error)
               /\ CopiesIn(error, sink) = 0
               /\ sink' = sink (+) SetToBag({error})
               /\ \A v \in Workers \ {w} :
                    /\ pending'[v] = pending[v]
                    /\ \A i \in DOMAIN imports : imports'[i].st[v] = imports[i].st[v]
                    /\ \A c \in CallsPending(v) : calls'[c] = calls[c]
     /\ \A error \in UnexpectedExits : CopiesIn(error, sink') <= 1]_vars

C4_Witness ==
  \E w \in Workers, v \in Workers, code \in ExitCodes, i \in DOMAIN imports :
    /\ w # v
    /\ thread[w] = "exited"
    /\ CopiesIn(Err("UnexpectedExit", w, code), sink) = 1
    /\ imports[i].replied[w] = "rejected"
    /\ imports[i].errors[w] = Err("UnexpectedExit", w, code)
    /\ imports[i].st[v] = "sent"
    /\ imports[i].id[v] \in pending[v]

\* C5: when the thread of a worker that dispose() terminated exits, every request
\* of that worker that is not yet settled (waiting for the worker to come online,
\* or sent and waiting for its reply) is rejected with the Terminating error and
\* with no other error.
C5_DisposeRejectsWithTerminating ==
  [][\A w \in Workers : (Exits(w) /\ terminations[w] = 1) =>
       /\ \A i \in DOMAIN imports : imports[i].st[w] \in {"gate", "sent"} =>
            imports'[i].st[w] = "failed" /\ imports'[i].errors[w].kind = "Terminating"
       /\ \A c \in DOMAIN calls : (calls[c].worker = w /\ calls[c].phase \in {"gate", "awaiting"}) =>
            calls'[c].phase = "failed" /\ calls'[c].error.kind = "Terminating"]_vars

\* C6: no request stays pending forever: when a worker's thread is running and
\* nothing of it is in flight (no message or reply queued, no handler running),
\* every waiter of the worker has been settled.
C6_NoRequestPendingForever ==
  \A w \in Workers :
    (thread[w] = "running" /\ toExec[w] = <<>> /\ toCtrl[w] = <<>> /\ jobs[w] = {}) =>
      pending[w] = {}

\* C7: dispose() is absorbing and idempotent: once the pool is disposed it stays
\* disposed with size 0 whatever follows, a dispose() on a disposed pool changes
\* no state, and no worker thread is asked to terminate more than once.
C7_DisposeIdempotent ==
  [][/\ isDisposed => isDisposed'
     /\ isDisposed' => Len(workers') = 0
     /\ (isDisposed /\ dispose) => UNCHANGED programVars
     /\ \A w \in Workers : terminations'[w] <= 1]_vars

C7_Witness ==
  /\ lastCall = Call("dispose", TRUE, "none")
  /\ isDisposed /\ size = 0
  /\ \E w \in Workers : terminations[w] = 1

\* C8: importFileProcessor and importModule on a disposed pool fail with
\* PoolDisposed and change no state: no moduleUID is allocated, no message sent.
C8_ImportAfterDispose ==
  [][(isDisposed /\ (importFileProcessor \/ importModule)) =>
       /\ lastCall'.thrown = "PoolDisposed"
       /\ UNCHANGED programVars]_vars

C8_Witness ==
  /\ lastCall.op \in {"importFileProcessor", "importModule"}
  /\ lastCall.thrown = "PoolDisposed"
  /\ moduleCounter = 0 /\ posted = {}

\* the importFileProcessor messages posted to worker w for the import call imp
ImportMessages(imp, w) ==
  {m \in posted : m.type = "importFileProcessor" /\ m.moduleUID = imp.moduleUID /\ m.worker = w}

\* C9: importFileProcessor posts one ImportFileProcessor message with the call's
\* moduleUID to each worker (never a second one, and exactly one to every worker
\* that has come online for it), and a processor proxy exists only when every
\* worker was sent the message and replied fileProcessorImported.
C9_ImportReachesEveryWorker ==
  /\ \A i \in DOMAIN imports : imports[i].type = "importFileProcessor" =>
       /\ \A j \in DOMAIN imports : imports[j].moduleUID = imports[i].moduleUID => j = i
       /\ \A w \in Workers :
            /\ Cardinality(ImportMessages(imports[i], w)) <= 1
            /\ imports[i].id[w] # 0 =>
                 ImportMessages(imports[i], w) =
                   {Posted(imports[i].id[w], w, "importFileProcessor", imports[i].moduleUID)}
       /\ imports[i].result = "resolved" =>
            \A w \in Workers :
              /\ Cardinality(ImportMessages(imports[i], w)) = 1
              /\ imports[i].replied[w] = "fileProcessorImported"
              /\ imports[i].moduleUID \in processors[w]
  /\ \A c \in DOMAIN calls : imports[calls[c].proxy].result = "resolved"

C9_Witness ==
  \E i \in DOMAIN imports :
    /\ imports[i].type = "importFileProcessor"
    /\ imports[i].result = "resolved"
    /\ \E c \in DOMAIN calls : calls[c].proxy = i

ProcessFileMessages == {m \in posted : m.type = "processFile"}

\* every processFile message belongs to one invocation and went to the worker
\* that was selected when the proxy was invoked, and no invocation has two
OneMessagePerInvocation ==
  /\ ProcessFileMessages =
       {Posted(calls[c].id, calls[c].worker, "processFile", calls[c].moduleUID) :
          c \in {d \in DOMAIN calls : calls[d].id # 0}}
  /\ \A c \in DOMAIN calls, d \in DOMAIN calls : (calls[c].id # 0 /\ calls[c].id = calls[d].id) => c = d
  /\ \A c \in DOMAIN calls : calls[c].id = 0 => calls[c].phase \in {"created", "gate", "failed"}

\* the controller handles the reply at the head of worker w's queue in this step
Handles(w) == toCtrl[w] # <<>> /\ toCtrl'[w] = Tail(toCtrl[w]) /\ thread'[w] = thread[w]

\* the reply handled in this step is an error reply for the request of call c
ErrorReplyFor(w, c) ==
  /\ Handles(w)
  /\ Head(toCtrl[w]).type = "error"
  /\ calls[c].worker = w
  /\ Head(toCtrl[w]).to = calls[c].id

\* C11: an invocation of a processor proxy posts at most one processFile message,
\* to the worker selected at the invocation and to no other; and when that worker
\* fails the request, the error reaches the caller: an error reply for the request
\* fails the call, or waits for the caller at its yield.
C11_NoRetryErrorSurfaces ==
  [][/\ OneMessagePerInvocation'
     /\ \A w \in Workers, c \in DOMAIN calls :
          ErrorReplyFor(w, c) =>
            \/ calls'[c].phase = "failed" /\ calls'[c].error = Head(toCtrl[w]).error
            \/ calls'[c].nextReply = Head(toCtrl[w])]_vars

\* the specification of the pool when only imports are made, several at a time
NextImports ==
  \/ importFileProcessorUpTo(MaxPendingImports) /\ UNCHANGED valueVars
  \/ importModuleUpTo(MaxPendingImports) /\ UNCHANGED valueVars
  \/ \E w \in Workers : Online(w) /\ UNCHANGED valueVars
  \/ \E w \in Workers : HandleReply(w) /\ UNCHANGED valueVars
  \/ \E w \in Workers : ExecutorReceive(w) /\ UNCHANGED valueVars
  \/ \E w \in Workers : \E job \in jobs[w], ok \in BOOLEAN : ExecutorImportFileProcessor(w, job, ok) /\ UNCHANGED valueVars
  \/ \E w \in Workers : \E job \in jobs[w], ok \in BOOLEAN : ExecutorImportModule(w, job, ok) /\ UNCHANGED valueVars

ImportsSpec == Init /\ [][NextImports]_vars

\* C12: an error reply for request m rejects the waiter of m and nothing else:
\* every other request, on the same worker or another, keeps its waiter and its
\* state, the worker and its thread stay as they were, and nothing is emitted on
\* the error sink.
C12_ErrorRejectsOnlyItsWaiter ==
  [][\A w \in Workers : (Handles(w) /\ Head(toCtrl[w]).type = "error") =>
       LET m == Head(toCtrl[w]).to
           error == Head(toCtrl[w]).error
       IN /\ m \in pending[w] =>
               /\ pending'[w] = pending[w] \ {m}
               /\ \A i \in ImportsPending(w) : imports[i].id[w] = m =>
                    imports'[i].st[w] = "failed" /\ imports'[i].errors[w] = error
               /\ \A c \in CallsPending(w) : calls[c].id = m =>
                    /\ calls[c].phase = "awaiting" =>
                         calls'[c].phase = "failed" /\ calls'[c].error = error
                    /\ calls[c].phase = "yielded" => calls'[c].nextReply = Head(toCtrl[w])
          /\ m \notin pending[w] => pending'[w] = pending[w]
          /\ \A v \in Workers \ {w} : pending'[v] = pending[v]
          /\ \A i \in DOMAIN imports, v \in Workers : (v # w \/ imports[i].id[w] # m) =>
               /\ imports'[i].st[v] = imports[i].st[v]
               /\ imports'[i].errors[v] = imports[i].errors[v]
          /\ \A c \in DOMAIN calls : (calls[c].worker # w \/ calls[c].id # m) => calls'[c] = calls[c]
          /\ sink' = sink
          /\ thread' = thread /\ isTerminated' = isTerminated
          /\ waitUntilOnline' = waitUntilOnline /\ workers' = workers]_vars

C12_Witness ==
  \E w \in Workers, v \in Workers, i \in DOMAIN imports, j \in DOMAIN imports :
    /\ w # v /\ i # j
    /\ imports[i].replied[w] = "error"
    /\ imports[i].st[v] = "sent" /\ imports[i].id[v] \in pending[v]
    /\ imports[j].st[w] = "sent" /\ imports[j].id[w] \in pending[w]
    /\ imports[j].id[w] < imports[i].id[w]
    /\ thread[w] = "running" /\ sink = EmptyBag

\* ------------------------------------------------------------------ cloning files
\* contents.byteLength: a view of a detached ArrayBuffer has length 0
byteLength(contents) == IF arrayBuffers[contents.buffer].detached THEN 0 ELSE contents.length

\* contents.buffer.byteLength: a detached ArrayBuffer has length 0
bufferByteLength(b) == IF arrayBuffers[b].detached THEN 0 ELSE Len(memory[arrayBuffers[b].block])

\* a cloneFile that hands over every contents buffer
cloneFileTransferring(file) ==
  [clone |-> file,
   transferList |-> IF file.contents # NoContents THEN <<file.contents.buffer>> ELSE <<>>]

\* cloneFile: the clone and its transfer list
cloneFile(file) ==
  [clone |-> file,
   transferList |->
     IF file.contents # NoContents
        /\ byteLength(file.contents) = bufferByteLength(file.contents.buffer)
       THEN <<file.contents.buffer>>
       ELSE <<>>]

\* the ArrayBuffer object the receiving thread gets for the n-th message
ReceivedBuffer(n) == n + 1

\* a copy that leaves the receiver's buffer on the sender's block of memory
SharedBlock(b, nb) == arrayBuffers[b].block

\* the block of memory behind the receiver's copy of ArrayBuffer b: a new one
CopiedBlock(b, nb) == nb

\* port.postMessage(message, transferList) for a message holding a file: the
\* structured clone of the file arrives in thread `to`; an ArrayBuffer on the
\* transfer list moves there and is detached in the sender, any other is copied
\* whole; a detached ArrayBuffer cannot be transferred
postFile(from, to, file, transferList) ==
  LET b == file.contents.buffer
      nb == ReceivedBuffer(sent.n + 1)
      received == File([file.contents EXCEPT !.buffer = nb])
  IN IF file.contents = NoContents
       THEN /\ files' = [files EXCEPT ![to] = file]
            /\ sent' = [n |-> sent.n + 1, from |-> from, transferList |-> transferList,
                        thrown |-> "none"]
            /\ UNCHANGED <<memory, arrayBuffers>>
     ELSE IF transferList # <<>> /\ arrayBuffers[b].detached
       THEN /\ sent' = [n |-> sent.n + 1, from |-> from, transferList |-> transferList,
                        thrown |-> "DataCloneError"]
            /\ UNCHANGED <<memory, arrayBuffers, files>>
     ELSE IF transferList # <<>>
       THEN /\ arrayBuffers' = [arrayBuffers EXCEPT
                  ![b].detached = TRUE,
                  ![nb] = [thread |-> to, block |-> arrayBuffers[b].block, detached |-> FALSE]]
            /\ files' = [files EXCEPT ![to] = received]
            /\ sent' = [n |-> sent.n + 1, from |-> from, transferList |-> transferList,
                        thrown |-> "none"]
            /\ memory' = memory
     ELSE /\ memory' = [memory EXCEPT ![CopiedBlock(b, nb)] = memory[arrayBuffers[b].block]]
          /\ arrayBuffers' = [arrayBuffers EXCEPT
                ![nb] = [thread |-> to, block |-> CopiedBlock(b, nb), detached |-> FALSE]]
          /\ files' = [files EXCEPT ![to] = received]
          /\ sent' = [n |-> sent.n + 1, from |-> from, transferList |-> transferList,
                      thrown |-> "none"]

\* Worker.processFile sends the caller's file to the worker thread, and
\* Executor.processFile sends an output file back: cloneFile, then the post
SendFile(from, to) ==
  /\ from # to
  /\ files[from].exists
  /\ sent.n < MaxSends
  /\ postFile(from, to, cloneFile(files[from]).clone, cloneFile(files[from]).transferList)
  /\ UNCHANGED <<programVars, lastCall, errorVars, logVars, moduleVars, graphVars, replyVars, channelVars>>

\* code of thread t writes byte v at index k of its file's contents
WriteContents(t, k, v) ==
  /\ files[t].exists
  /\ files[t].contents # NoContents
  /\ k \in 1..byteLength(files[t].contents)
  /\ LET c == files[t].contents
         block == arrayBuffers[c.buffer].block
     IN /\ memory[block][c.byteOffset + k] # v
        /\ memory' = [memory EXCEPT ![block][c.byteOffset + k] = v]
  /\ UNCHANGED <<arrayBuffers, files, sent, programVars, lastCall, errorVars, logVars, moduleVars, graphVars, replyVars, channelVars>>

\* the caller's file: it has no contents, or its contents is a view (byteOffset,
\* length) of an ArrayBuffer of the main thread
InitFile ==
  /\ InitNoError
  /\ InitNoRun
  /\ InitNoModule
  /\ InitNoGraph
  /\ InitNoReply
  /\ InitChannel
  /\ sent = NothingSent
  /\ \E byteSize \in 0..MaxBytes :
       /\ memory = [k \in BufferIds |-> IF k = 1 THEN [x \in 1..byteSize |-> 0] ELSE <<>>]
       /\ arrayBuffers = [b \in BufferIds |->
            IF b = 1 THEN [thread |-> "main", block |-> 1, detached |-> FALSE] ELSE NoBuffer]
       /\ \E withContents \in BOOLEAN, byteOffset \in 0..byteSize :
            \E length \in 0..(byteSize - byteOffset) :
              files = [t \in Threads |->
                IF t = "worker" THEN NoFile
                ELSE IF withContents
                  THEN File([buffer |-> 1, byteOffset |-> byteOffset, length |-> length])
                  ELSE File(NoContents)]

NextClone ==
  \/ \E from \in Threads, to \in Threads : SendFile(from, to)
  \/ \E t \in Threads, k \in 1..MaxBytes, v \in Bytes : WriteContents(t, k, v)

InitClone == InitProgram /\ InitFile

CloneSpec == InitClone /\ [][NextClone]_vars

\* a file is posted in this step, by thread `from`, and the post does not throw
Sends(from) == sent'.n = sent.n + 1 /\ sent'.from = from /\ sent'.thrown = "none"

\* the contents is a view of the whole of its ArrayBuffer
SpansBuffer(contents) ==
  /\ contents.byteOffset = 0
  /\ contents.length = Len(memory[arrayBuffers[contents.buffer].block])

\* C13: when a file is sent, in either direction, its contents buffer is on the
\* transfer list exactly if the contents spans its whole ArrayBuffer; a file
\* without contents has an empty transfer list; and after a send that transfers,
\* the sender's ArrayBuffer is detached: it and the sender's view have length 0.
C13_TransferIffWholeBuffer ==
  [][\A from \in Threads : Sends(from) =>
       LET contents == files[from].contents
       IN /\ contents = NoContents => sent'.transferList = <<>>
          /\ contents # NoContents =>
               /\ sent'.transferList \in {<<>>, <<contents.buffer>>}
               /\ sent'.transferList = <<contents.buffer>> <=> SpansBuffer(contents)
               /\ sent'.transferList # <<>> =>
                    /\ arrayBuffers'[contents.buffer].detached
                    /\ files'[from].contents = contents]_vars

C13_Witness ==
  \E t \in Threads :
    /\ sent.n = 2 /\ sent.from = "worker" /\ sent.thrown = "none"
    /\ sent.transferList # <<>>
    /\ files[t].contents # NoContents
    /\ byteLength(files["worker"].contents) = 0
    /\ bufferByteLength(files["main"].contents.buffer) > 0

\* the threads that can reach block k of memory through an ArrayBuffer
Owners(k) ==
  {arrayBuffers[b].thread : b \in {x \in BufferIds :
     arrayBuffers[x].thread # "none" /\ ~arrayBuffers[x].detached /\ arrayBuffers[x].block = k}}

\* C14: when a file's contents is a view of part of a larger buffer, sending it
\* copies: the sender's view, its ArrayBuffer and the bytes behind it are as
\* before, and the receiver's view is on another block of memory with the same
\* bytes, so that no write of the receiver changes the sender's buffer. At every
\* moment at most one thread can reach a block of memory.
C14_PartialViewIsCopied ==
  [][/\ \A from \in Threads : \A to \in Threads \ {from} :
          (Sends(from) /\ files[from].contents # NoContents
             /\ ~SpansBuffer(files[from].contents)) =>
            LET contents == files[from].contents
                block == arrayBuffers[contents.buffer].block
                copy == arrayBuffers'[files'[to].contents.buffer].block
            IN /\ files'[from] = files[from]
               /\ arrayBuffers'[contents.buffer] = arrayBuffers[contents.buffer]
               /\ memory'[block] = memory[block]
               /\ copy # block
               /\ memory'[copy] = memory[block]
               /\ files'[to].contents.byteOffset = contents.byteOffset
               /\ files'[to].contents.length = contents.length
     /\ \A k \in BufferIds : Cardinality(Owners(k)') <= 1
     /\ \A k \in BufferIds : memory'[k] # memory[k] =>
          (Sends("main") \/ Sends("worker") \/ Cardinality(Owners(k)) = 1)]_vars

C14_Witness ==
  /\ sent.n >= 1 /\ sent.transferList = <<>>
  /\ files["main"].contents # NoContents /\ files["worker"].contents # NoContents
  /\ ~arrayBuffers[files["main"].contents.buffer].detached
  /\ \E k \in 1..files["main"].contents.length :
       memory[arrayBuffers[files["main"].contents.buffer].block][files["main"].contents.byteOffset + k]
         # memory[arrayBuffers[files["worker"].contents.buffer].block][files["worker"].contents.byteOffset + k]

\* ------------------------------------------------------------------ errors
\* the constructors of the built-in error types
ErrorKinds == {"Error", "EvalError", "RangeError", "ReferenceError", "SyntaxError",
               "TypeError", "URIError"}

\* the names an error can carry: those of the built-in types, one of a custom
\* class, and two that are also properties of every object
ErrorNames == ErrorKinds \cup {"MyCustomError", "toString", "constructor"}

ErrorMessages == {<<>>, <<"Boom!">>}

CustomFields == SUBSET {<<"foo", v>> : v \in 1..MaxFields}

\* an Error object: kind is the built-in type it is an instance of
ErrorObject(kind, name, message, stack, props) ==
  [type |-> "Error", kind |-> kind, name |-> name, message |-> message, stack |-> stack,
   props |-> props]

\* ErrorClone: the plain record that stands for an error in a reply
ErrorClone(name, message, stack, props) ==
  [type |-> "object", name |-> name, message |-> message, stack |-> stack, props |-> props]

String(value) == [type |-> "string", value |-> value]

Number(number) == [type |-> "number", number |-> number]

\* what plugin code can throw: an Error of any type, name and fields, a string or a number
ThrownValues ==
  {ErrorObject(kind, name, message, <<"worker">>, props) :
     kind \in ErrorKinds, name \in ErrorNames, message \in ErrorMessages, props \in CustomFields}
  \cup {String(""), String("This is not an error")}
  \cup {Number(0), Number(42)}

Handlers == {"importFileProcessor", "importModule", "processFile"}

NothingThrown == [handler |-> "none", value |-> NoValue]

\* typeof value
typeof(value) == IF value.type \in {"Error", "object"} THEN "object" ELSE value.type

\* !value
falsy(value) ==
  \/ value.type = "string" /\ value.value = ""
  \/ value.type = "number" /\ value.number = 0

\* Ono.toJSON: the record of an error's name, message, stack and own fields
toJSON(error) == ErrorClone(error.name, error.message, error.stack, error.props)

\* a cloneError that makes a record of whatever it is given
cloneErrorWrapped(error) ==
  IF typeof(error) = "object"
    THEN toJSON(error)
    ELSE ErrorClone("Error", <<>>, <<>>, {})

\* cloneError
cloneError(error) ==
  IF typeof(error) = "object"
    THEN toJSON(error)
    ELSE error

\* ono.eval, ono.range, ..., and ono itself (kind "Error"), given an error or a
\* record of one: a new error of that kind with the original's message and custom
\* fields, whose stack is its own followed by the original's
ono(kind, error) ==
  ErrorObject(kind, kind, error.message, <<"main">> \o error.stack, error.props)

\* the own keys of builtInErrorTypes, each with the kind its function makes
builtInErrorTypes ==
  [name \in ErrorKinds \ {"Error"} |-> name]

\* the keys builtInErrorTypes inherits from Object.prototype (two of them)
ObjectPrototype == {"constructor", "toString"}

\* name in builtInErrorTypes: true of inherited keys too
InBuiltInErrorTypes(name) == name \in DOMAIN builtInErrorTypes \cup ObjectPrototype

\* builtInErrorTypes[name](error): an own key makes an error of its kind;
\* "constructor" is Object, which returns the record it is given; "toString" is
\* Object.prototype.toString, called without a receiver
errorType(name, error) ==
  IF name \in DOMAIN builtInErrorTypes THEN ono(builtInErrorTypes[name], error)
  ELSE IF name = "constructor" THEN error
  ELSE String("[object Undefined]")

\* createError
createError(error) ==
  IF falsy(error) \/ typeof(error) # "object" \/ error.type = "Error"
    THEN error
  ELSE IF InBuiltInErrorTypes(error.name)
    THEN errorType(error.name, error)
  ELSE ono("Error", error)

\* the catch of Executor.importFileProcessor and Executor.importModule:
\* ono(error, {workerId, moduleId}, "Error importing module: ..."), an error of
\* the kind of the one caught, with that message put before the original's
importError(error) ==
  IF error.type = "Error"
    THEN ErrorObject(error.kind, error.kind, <<"Error importing module">> \o error.message,
                     <<"worker">> \o error.stack, error.props \cup {<<"workerId", 1>>})
    ELSE ErrorObject("Error", "Error", <<"Error importing module">>, <<"worker">>,
                     {<<"workerId", 1>>})

\* plugin code throws while the Executor handles a request: what the handler
\* throws to Messenger._handleMessage
ExecutorThrows ==
  /\ thrown # NothingThrown
  /\ caught = NoValue
  /\ caught' = IF thrown.handler = "processFile" THEN thrown.value
               ELSE importError(thrown.value)
  /\ UNCHANGED <<thrown, errorReply, rejection, programVars, lastCall, fileVars, logVars, moduleVars, graphVars, replyVars, channelVars>>

\* the catch of Messenger._handleMessage (worker side) posts the error reply
PostErrorReply ==
  /\ caught # NoValue
  /\ errorReply = NoValue
  /\ errorReply' = cloneError(caught)
  /\ UNCHANGED <<thrown, caught, rejection, programVars, lastCall, fileVars, logVars, moduleVars, graphVars, replyVars, channelVars>>

\* Messenger._handleMessage (controller side) rejects the waiter of the message
RejectWaiter ==
  /\ errorReply # NoValue
  /\ rejection = NoValue
  /\ rejection' = createError(errorReply)
  /\ UNCHANGED <<thrown, caught, errorReply, programVars, lastCall, fileVars, logVars, moduleVars, graphVars, replyVars, channelVars>>

\* plugin code is about to throw some value in some handler
InitThrown ==
  /\ thrown \in [handler : Handlers, value : ThrownValues]
  /\ caught = NoValue
  /\ errorReply = NoValue
  /\ rejection = NoValue

InitError ==
  InitProgram /\ InitNoFile /\ InitNoRun /\ InitNoModule /\ InitNoGraph /\ InitNoReply /\ InitChannel
  /\ InitThrown

NextError ==
  \/ ExecutorThrows
  \/ PostErrorReply
  \/ RejectWaiter

ErrorSpec == InitError /\ [][NextError]_vars

\* the names that stand for a built-in error type other than Error
StandardNames == {"EvalError", "RangeError", "ReferenceError", "SyntaxError", "TypeError",
                  "URIError"}

\* C18: an error record received in an error reply is reconstructed as an error
\* of kind K when its name K is one of EvalError, RangeError, ReferenceError,
\* SyntaxError, TypeError, URIError, and as a generic Error for every other name;
\* the record's message, stack and custom fields are carried over unchanged
C18_ReconstructedByName ==
  (errorReply # NoValue /\ errorReply.type = "object" /\ rejection # NoValue) =>
    /\ rejection.type = "Error"
    /\ rejection.kind = IF errorReply.name \in StandardNames THEN errorReply.name ELSE "Error"
    /\ rejection.message = errorReply.message
    /\ rejection.stack = errorReply.stack
    /\ rejection.props = errorReply.props

\* a non-Error value thrown by plugin code in any handler reaches the waiter unchanged
C19_NonErrorUnchanged ==
  thrown.value.type \in {"string", "number"} =>
    /\ errorReply # NoValue => errorReply = thrown.value
    /\ rejection # NoValue => rejection = thrown.value

\* C19: a string or a number thrown by plugin code while a processFile request
\* is handled is carried unchanged in the error reply and the waiter is rejected
\* with exactly that value; thrown while an import request is handled, it
\* reaches the waiter inside an Error made by the Executor
C19_NonErrorFromProcessFile ==
  thrown.value.type \in {"string", "number"} =>
    IF thrown.handler = "processFile"
      THEN /\ errorReply # NoValue => errorReply = thrown.value
           /\ rejection # NoValue => rejection = thrown.value
      ELSE rejection # NoValue => rejection.type = "Error"

C19_Witness ==
  /\ thrown.handler = "processFile"
  /\ thrown.value = String("This is not an error")
  /\ errorReply = thrown.value
  /\ rejection = thrown.value

\* ------------------------------------------------------------------ logging
LogLevel == [Info |-> "info", Debug |-> "debug", Warning |-> "warning", Error |-> "error"]

\* createLogReply, for a reply addressed to the first message whatever the run
createLogReplyToFirst(level, to, msg) ==
  [type |-> "log", to |-> 1, level |-> level, message |-> cloneError(msg)]

\* createLogReply
createLogReply(level, to, msg) ==
  [type |-> "log", to |-> to, level |-> level, message |-> cloneError(msg)]

\* the methods of the logger made by createLogger(messenger, messageId, run):
\* each gives the replies it posts
log_info(messageId, run, message) ==
  <<createLogReply(LogLevel.Info, messageId, message)>>

\* a log.debug that ignores run.debug
log_debugAlways(messageId, run, message) ==
  <<createLogReply(LogLevel.Debug, messageId, message)>>

log_debug(messageId, run, message) ==
  IF run.debug
    THEN <<createLogReply(LogLevel.Debug, messageId, message)>>
    ELSE <<>>

log_warn(messageId, run, warning) ==
  <<createLogReply(LogLevel.Warning, messageId, warning)>>

log_error(messageId, run, error) ==
  <<createLogReply(LogLevel.Error, messageId, error)>>

\* a log(message) that takes every message for information
logAsInfo(messageId, run, message) ==
  log_info(messageId, run, message)

\* log(message, data)
log(messageId, run, message) ==
  IF typeof(message) = "string"
    THEN log_info(messageId, run, message)
    ELSE log_error(messageId, run, message)

LogMethods == {"log", "info", "debug", "warn", "error"}

\* the logger of a run, called by one of its methods
createLogger(messageId, run, method, message) ==
  CASE method = "log" -> log(messageId, run, message)
    [] method = "info" -> log_info(messageId, run, message)
    [] method = "debug" -> log_debug(messageId, run, message)
    [] method = "warn" -> log_warn(messageId, run, message)
    [] method = "error" -> log_error(messageId, run, message)

\* what the plugin handling request messageId can pass to a method of the
\* logger: a string, or for log, warn and error also an Error; the text names
\* the request
LogMessages(messageId, method) ==
  {String(ToString(messageId))} \cup
  IF method \in {"log", "warn", "error"}
    THEN {ErrorObject("RangeError", "RangeError", <<ToString(messageId)>>, <<"worker">>, {})}
    ELSE {}

\* the request that the text of a logged message names
TextOf(message) == IF message.type = "string" THEN message.value ELSE message.message[1]

\* the undefined value
UndefinedValue == [type |-> "undefined"]

\* a Buffer of some length, the contents of a changed file
Buffer(length) == [type |-> "Buffer", length |-> length]

\* the log capability of a run: the caller's, or one made by createLogger for a
\* message id; logged counts the calls made through it
Logger(owner, messageId) ==
  [type |-> "Logger", owner |-> owner, messageId |-> messageId, logged |-> 0]

ChangedFile(path, change, contents) == [path |-> path, change |-> change, contents |-> contents]

\* a Run as the caller of a processor gives it
Run(dev, debug, changedFiles) ==
  [cwd |-> "/users/jdoe/desktop", concurrency |-> NumWorkers, dev |-> dev, debug |-> debug,
   full |-> TRUE, partial |-> FALSE, changedFiles |-> changedFiles, log |-> Logger("caller", 0)]

\* a cloneChangedFile that keeps the contents
cloneChangedFileWhole(file) == file

\* cloneChangedFile
cloneChangedFile(file) == [file EXCEPT !.contents = UndefinedValue]

\* cloneRun: a new object with the fields of the run, no logger, and a clone of
\* each changed file; `run` is the caller's object after the call
cloneRun(run) ==
  [clone |-> [run EXCEPT !.log = UndefinedValue,
                         !.changedFiles = [k \in DOMAIN @ |-> cloneChangedFile(@[k])]],
   run |-> run]

\* createChangedFile: the changed file the Executor makes of a clone, which has
\* its contents again, empty
createChangedFile(file) == [file EXCEPT !.contents = Buffer(0)]

\* createRun: the fields of the clone, its changed files made anew, and a
\* logger bound to the message id
createRun(messageId, run) ==
  [run EXCEPT !.changedFiles = [k \in DOMAIN @ |-> createChangedFile(@[k])],
              !.log = Logger("executor", messageId)]

\* Worker.processFile(moduleUID, file, run), once the worker is online: the
\* message is posted with a clone of the run and the call waits for replies
WorkerProcessFile(w, run) ==
  /\ waitUntilOnline[w].state = "resolved"
  /\ Len(runs) < MaxRuns
  /\ LET id == messageCounter + 1
     IN /\ messageCounter' = id
        /\ pending' = [pending EXCEPT ![w] = @ \cup {id}]
        /\ runs' = Append(runs, [id |-> id, worker |-> w, run |-> cloneRun(run).clone,
                                 inPort |-> TRUE, given |-> run, caller |-> cloneRun(run).run])
        /\ loggers' = Append(loggers, <<>>)
  /\ lastLog' = NoLog
  /\ UNCHANGED <<runClones, logReplies, poolVars, isTerminated, waitUntilOnline, completed,
                 thread, terminations, toExec, toCtrl, processors, jobs, imports, calls,
                 posted, produced, sink, lastCall, fileVars, errorVars, moduleVars, graphVars, replyVars, channelVars>>

\* Executor.processFile receives the message of call r, the oldest one in the
\* port of its worker, and makes the Run it hands to the plugin
ExecutorCreateRun(r) ==
  /\ r \in DOMAIN runs
  /\ runs[r].inPort
  /\ \A q \in 1..(r - 1) : runs[q].worker = runs[r].worker => ~runs[q].inPort
  /\ runs' = [runs EXCEPT ![r].inPort = FALSE]
  /\ runClones' = [runClones EXCEPT ![runs[r].worker] = @ \cup {createRun(runs[r].id, runs[r].run)}]
  /\ lastLog' = NoLog
  /\ UNCHANGED <<logReplies, loggers, programVars, lastCall, fileVars, errorVars, moduleVars, graphVars, replyVars, channelVars>>

\* how many log calls the plugins have made through the runs with a message id up to n
RECURSIVE Logged(_)
Logged(n) ==
  IF n = 0 THEN 0
  ELSE Logged(n - 1) +
       (LET R == {run \in UNION {runClones[w] : w \in Workers} : run.log.messageId = n}
        IN IF R = {} THEN 0 ELSE (CHOOSE run \in R : TRUE).log.logged)

\* the plugin calls a method of run.log
LogCall(w, run, method, message) ==
  /\ run \in runClones[w]
  /\ Logged(MaxRuns) < MaxLogs
  /\ logReplies' = [logReplies EXCEPT ![w] = @ \o createLogger(run.log.messageId, run, method, message)]
  /\ runClones' = [runClones EXCEPT ![w] = (@ \ {run}) \cup {[run EXCEPT !.log.logged = @ + 1]}]
  /\ lastLog' = [method |-> method, messageId |-> run.log.messageId, message |-> message]
  /\ UNCHANGED <<runs, loggers, programVars, lastCall, fileVars, errorVars, moduleVars, graphVars, replyVars, channelVars>>

\* Messenger._handleMessage (controller side) for a log reply, and the loop of
\* Worker.processFile that it resumes: the reply goes to the call waiting for
\* its id, which logs it through its own run and waits for the next reply
DispatchLog(w) ==
  /\ logReplies[w] # <<>>
  /\ LET reply == Head(logReplies[w])
         message == IF reply.message.type = "string" THEN reply.message
                    ELSE createError(reply.message)
     IN /\ logReplies' = [logReplies EXCEPT ![w] = Tail(@)]
        /\ IF reply.to \in pending[w]
             THEN /\ completed' = [completed EXCEPT ![w] = @ \cup {reply.to}]
                  /\ loggers' = [r \in DOMAIN loggers |->
                       IF runs[r].worker = w /\ runs[r].id = reply.to
                         THEN Append(loggers[r], [level |-> reply.level, message |-> message])
                         ELSE loggers[r]]
                  /\ sink' = sink
             ELSE IF reply.to \in completed[w]
               THEN UNCHANGED <<completed, loggers, sink>>
               ELSE /\ sink' = sink (+) SetToBag({Err("InvalidMessageID", w, reply.to)})
                    /\ UNCHANGED <<completed, loggers>>
  /\ lastLog' = NoLog
  /\ UNCHANGED <<runs, runClones, poolVars, messageCounter, isTerminated, waitUntilOnline,
                 pending, thread, terminations, toExec, toCtrl, processors, jobs, imports,
                 calls, posted, produced, lastCall, fileVars, errorVars, moduleVars, graphVars, replyVars, channelVars>>

NextLog ==
  \/ \E w \in Workers :
       Online(w) /\ lastLog' = NoLog
                 /\ UNCHANGED <<runs, runClones, logReplies, loggers, fileVars, errorVars, moduleVars, graphVars, replyVars, channelVars>>
  \/ \E w \in Workers, debug \in BOOLEAN : WorkerProcessFile(w, Run(FALSE, debug, <<>>))
  \/ \E r \in 1..MaxRuns : ExecutorCreateRun(r)
  \/ \E w \in Workers : \E run \in runClones[w], method \in LogMethods :
       \E message \in LogMessages(run.log.messageId, method) : LogCall(w, run, method, message)
  \/ \E w \in Workers : DispatchLog(w)

LogSpec == Init /\ [][NextLog]_vars

\* the run that the processFile call with message id m was given
RunOf(m) == runs[CHOOSE r \in DOMAIN runs : runs[r].id = m].run

\* the step posts exactly one log reply, of this level and addressed to this message
PostsOne(level, to) ==
  \E w \in Workers :
    /\ Len(logReplies'[w]) = Len(logReplies[w]) + 1
    /\ logReplies' = [logReplies EXCEPT ![w] = Append(@, logReplies'[w][Len(logReplies'[w])])]
    /\ logReplies'[w][Len(logReplies'[w])].type = "log"
    /\ logReplies'[w][Len(logReplies'[w])].level = level
    /\ logReplies'[w][Len(logReplies'[w])].to = to

\* the step posts no log reply
PostsNothing == logReplies' = logReplies

\* the step is a call of this method of a run's logger
Calls(method) == lastLog' # NoLog /\ lastLog'.method = method

\* C15: every log call made through the run of processFile request m posts its
\* log reply with to = m; a log reply changes only the logger of the run given
\* to the processFile call that posted message m, by one record at the level
\* the reply carries; so no logger ever holds a record of another request
C15_LogsReachOwnLogger ==
  [][/\ \A w \in Workers :
          Len(logReplies'[w]) > Len(logReplies[w]) =>
            \A k \in (Len(logReplies[w]) + 1)..Len(logReplies'[w]) :
              logReplies'[w][k].to = lastLog'.messageId
     /\ \A r \in DOMAIN loggers :
          loggers'[r] # loggers[r] =>
            \E w \in Workers :
              /\ logReplies[w] # <<>>
              /\ logReplies'[w] = Tail(logReplies[w])
              /\ runs[r].worker = w
              /\ runs[r].id = Head(logReplies[w]).to
              /\ Len(loggers'[r]) = Len(loggers[r]) + 1
              /\ SubSeq(loggers'[r], 1, Len(loggers[r])) = loggers[r]
              /\ loggers'[r][Len(loggers'[r])].level = Head(logReplies[w]).level
     /\ \A r \in DOMAIN loggers' : \A k \in DOMAIN loggers'[r] :
          TextOf(loggers'[r][k].message) = ToString(runs'[r].id)]_vars

C15_Witness ==
  /\ Len(runs) = 2
  /\ runs[1].worker = runs[2].worker
  /\ loggers[1] # <<>>
  /\ loggers[2] # <<>>

\* C16: a log.debug call posts nothing when run.debug is false and exactly one
\* reply of level debug when it is true, so no debug reply is ever posted for a
\* request whose run.debug is false; info, warn and error calls post exactly
\* one reply whatever run.debug is
C16_DebugOnlyWhenEnabled ==
  [][/\ Calls("debug") =>
          IF RunOf(lastLog'.messageId).debug
            THEN PostsOne(LogLevel.Debug, lastLog'.messageId)
            ELSE PostsNothing
     /\ \A method \in {"info", "warn", "error"} :
          Calls(method) => \E level \in {"info", "warning", "error"} :
                             PostsOne(level, lastLog'.messageId)
     /\ \A w \in Workers : \A k \in DOMAIN logReplies'[w] :
          logReplies'[w][k].level = LogLevel.Debug => RunOf(logReplies'[w][k].to).debug]_vars

C16_Witness ==
  /\ lastLog.method = "debug"
  /\ ~RunOf(lastLog.messageId).debug
  /\ \A w \in Workers : logReplies[w] = <<>>
  /\ \E w \in Workers : \E run \in runClones[w] : run.debug

\* C17: log(message, data) posts exactly one log reply, of level info when the
\* message is a string and of level error when it is an Error; info, warn,
\* error and debug post their replies at the levels info, warning, error and debug
C17_LevelOfEachMethod ==
  [][/\ Calls("log") =>
          PostsOne(IF lastLog'.message.type = "string" THEN "info" ELSE "error",
                   lastLog'.messageId)
     /\ Calls("info") => PostsOne("info", lastLog'.messageId)
     /\ Calls("warn") => PostsOne("warning", lastLog'.messageId)
     /\ Calls("error") => PostsOne("error", lastLog'.messageId)
     /\ Calls("debug") => PostsNothing \/ PostsOne("debug", lastLog'.messageId)]_vars

C17_Witness ==
  /\ lastLog.method = "log"
  /\ lastLog.message.type = "Error"
  /\ \E w \in Workers :
       /\ logReplies[w] # <<>>
       /\ logReplies[w][Len(logReplies[w])].level = "error"
       /\ logReplies[w][Len(logReplies[w])].to = lastLog.messageId

\* ------------------------------------------------------------------ importModule
ModuleData == 0..MaxData

Exports == {"function", "object", "none"}

\* WorkerPool.importModule(moduleId, data)
importModuleData(data) ==
  /\ importModuleUpTo(MaxPendingImports)
  /\ importData' = IF isDisposed THEN importData ELSE Append(importData, data)
  /\ UNCHANGED <<factories, registered, fileVars, errorVars, logVars, graphVars, replyVars, channelVars>>

\* message.data: the data of the import call that made the message with this id
DataOf(w, id) == importData[CHOOSE i \in DOMAIN imports : imports[i].id[w] = id]

\* an Executor.importModule that replies without calling the exported function
importModuleNoCall(export) ==
  IF export = "none" THEN "error" ELSE "finished"

\* Executor.importModule once the module is imported: it fails when the module
\* cannot be imported, awaits the exported function when there is one, and
\* replies at once otherwise
importModuleStep(export) ==
  IF export = "none" THEN "error"
  ELSE IF export = "function" THEN "await"
  ELSE "finished"

\* Executor.importModule, up to the call of the exported function
ExecutorImportsModule(w, job, export) ==
  /\ thread[w] = "running"
  /\ job \in jobs[w]
  /\ job.type = "importModule"
  /\ \A f \in factories[w] : f.id # job.id
  /\ LET step == importModuleStep(export)
     IN /\ factories' = [factories EXCEPT ![w] = @ \cup
               {[id |-> job.id, export |-> export,
                 state |-> IF step = "await" THEN "invoked" ELSE "none",
                 data |-> IF step = "await" THEN DataOf(w, job.id) ELSE 0,
                 reply |-> IF step = "await" THEN "none" ELSE step]}]
        /\ jobs' = [jobs EXCEPT ![w] = IF step = "await" THEN @ ELSE @ \ {job}]
        /\ toCtrl' = IF step = "await" THEN toCtrl
                     ELSE IF step = "finished"
                       THEN postReply(w, Reply(job.id, "finished", 0, NoError))
                     ELSE postReply(w, Reply(job.id, "error", 0, Err("ImportError", w, 0)))
  /\ UNCHANGED <<poolVars, messageCounter, isTerminated, waitUntilOnline, pending, completed,
                 thread, terminations, toExec, processors, produced, imports, calls, posted,
                 sink, importData, registered, fileVars, errorVars, logVars, graphVars, replyVars, channelVars>>
  /\ lastCall' = NoCall

\* Executor.importModule, from the settling of the promise the exported
\* function returned: the reply is finished, or the catch rethrows and the
\* Messenger replies with the error
ExecutorFactorySettles(w, job, ok) ==
  /\ thread[w] = "running"
  /\ job \in jobs[w]
  /\ job.type = "importModule"
  /\ \E f \in factories[w] :
       /\ f.id = job.id
       /\ f.state = "invoked"
       /\ factories' = [factories EXCEPT ![w] = (@ \ {f}) \cup
            {[f EXCEPT !.state = IF ok THEN "fulfilled" ELSE "rejected",
                       !.reply = IF ok THEN "finished" ELSE "error"]}]
  /\ jobs' = [jobs EXCEPT ![w] = @ \ {job}]
  /\ toCtrl' = postReply(w, IF ok THEN Reply(job.id, "finished", 0, NoError)
                            ELSE Reply(job.id, "error", 0, Err("ImportError", w, 0)))
  /\ UNCHANGED <<poolVars, messageCounter, isTerminated, waitUntilOnline, pending, completed,
                 thread, terminations, toExec, processors, produced, imports, calls, posted,
                 sink, importData, registered, fileVars, errorVars, logVars, graphVars, replyVars, channelVars>>
  /\ lastCall' = NoCall

NextModule ==
  \/ \E data \in ModuleData : importModuleData(data)
  \/ \E w \in Workers : Online(w) /\ UNCHANGED valueVars
  \/ \E w \in Workers : HandleReply(w) /\ UNCHANGED valueVars
  \/ \E w \in Workers : ExecutorReceive(w) /\ UNCHANGED valueVars
  \/ \E w \in Workers : \E job \in jobs[w], export \in Exports : ExecutorImportsModule(w, job, export)
  \/ \E w \in Workers : \E job \in jobs[w], ok \in BOOLEAN : ExecutorFactorySettles(w, job, ok)

ModuleSpec == Init /\ [][NextModule]_vars

\* C20: importModule resolves only after every worker has replied finished; a
\* worker posts finished only after the exported function, when there is one,
\* was called with the data of the call and the promise it returned was
\* fulfilled; when the function throws or rejects on a worker, that worker posts
\* no finished reply, importModule does not resolve, and it is rejected once the
\* worker's error reply is handled
C20_ImportModuleWaitsForFactories ==
  \A i \in DOMAIN imports : \A w \in Workers :
    /\ imports[i].result = "resolved" =>
         /\ imports[i].replied[w] = "finished"
         /\ \E f \in factories[w] : f.id = imports[i].id[w] /\ f.reply = "finished"
    /\ \A f \in factories[w] :
         f.id = imports[i].id[w] =>
           /\ (f.reply = "finished" /\ f.export = "function") =>
                f.state = "fulfilled" /\ f.data = importData[i]
           /\ (\E k \in DOMAIN toCtrl[w] :
                 toCtrl[w][k].to = f.id /\ toCtrl[w][k].type = "finished") =>
                f.reply = "finished"
           /\ f.state = "rejected" =>
                /\ f.reply = "error"
                /\ imports[i].result # "resolved"
                /\ imports[i].replied[w] # "finished"
                /\ imports[i].replied[w] = "error" => imports[i].result = "rejected"

C20_Witness ==
  \E i \in DOMAIN imports, j \in DOMAIN imports :
    /\ imports[i].result = "resolved"
    /\ importData[i] = 1
    /\ \A w \in Workers : \E f \in factories[w] :
         f.id = imports[i].id[w] /\ f.export = "function" /\ f.state = "fulfilled" /\ f.data = 1
    /\ imports[j].result = "rejected"
    /\ \E w \in Workers : \E f \in factories[w] :
         f.id = imports[j].id[w] /\ f.state = "rejected"

\* ------------------------------------------------------------------ size
\* pool.size is the number of workers of the pool that are not terminated
C23_SizeIsLiveWorkers ==
  size = Cardinality({w \in PoolWorkers : ~isTerminated[w]})

\* C23: pool.size is the number of worker handles the pool holds: the
\* configured concurrency from construction until dispose(), also when
\* threads of the pool have exited and their handles are terminated, and 0
\* after dispose()
C23_SizeIsHandles ==
  size = IF isDisposed THEN 0 ELSE NumWorkers

C23_Witness ==
  /\ ~isDisposed
  /\ \E w \in Workers : isTerminated[w] /\ thread[w] = "exited"
  /\ size = NumWorkers

\* ------------------------------------------------------------------ importFileProcessor
\* data that is absent
Undefined == 0 - 1

ProcessorData == {Undefined} \cup ModuleData

\* what a module exports by default: a function, some other value, nothing; or
\* the module cannot be imported
ProcessorExports == {"function", "object", "undefined", "none"}

\* what the exported function does when called as a factory: it returns (a
\* promise of) a function, of some other value or of nothing, or throws or rejects
Products == {"function", "object", "undefined", "throws"}

\* WorkerPool.importFileProcessor(moduleId, data)
importFileProcessorData(data) ==
  /\ importFileProcessorUpTo(MaxImports)
  /\ importData' = IF isDisposed THEN importData ELSE Append(importData, data)
  /\ UNCHANGED <<factories, registered, fileVars, errorVars, logVars, graphVars, replyVars, channelVars>>

\* an Executor.importFileProcessor that takes whatever the factory returns
importFileProcessorAnyProduct(export, data, product) ==
  IF export # "function" THEN "error"
  ELSE IF data = Undefined THEN "export"
  ELSE IF product = "throws" THEN "error"
  ELSE "product"

\* Executor.importFileProcessor: the function it registers, the exported one
\* or the factory's product, or "error" when it throws
importFileProcessorStep(export, data, product) ==
  IF export = "none" THEN "error"
  ELSE IF export = "undefined" THEN "error"
  ELSE IF export # "function" THEN "error"
  ELSE IF data = Undefined THEN "export"
  ELSE IF product = "throws" THEN "error"
  ELSE IF product = "undefined" THEN "error"
  ELSE IF product # "function" THEN "error"
  ELSE "product"

\* Executor.importFileProcessor for a module with this export, whose factory
\* (if it is called) has this product
ExecutorImportsFileProcessor(w, job, export, product) ==
  LET data == DataOf(w, job.id)
      step == importFileProcessorStep(export, data, product)
      called == export = "function" /\ data # Undefined
  IN /\ ExecutorImportFileProcessor(w, job, step # "error")
     /\ factories' = [factories EXCEPT ![w] = @ \cup
          {[id |-> job.id, export |-> export, state |-> IF called THEN product ELSE "none",
            data |-> data,
            reply |-> IF step = "error" THEN "error" ELSE "fileProcessorImported"]}]
     /\ registered' = IF step = "error" THEN registered
                      ELSE [registered EXCEPT ![w] = @ \cup
                             {[moduleUID |-> job.moduleUID, processor |-> step]}]
     /\ UNCHANGED <<importData, fileVars, errorVars, logVars, graphVars, replyVars, channelVars>>

NextProcessor ==
  \/ \E data \in ProcessorData : importFileProcessorData(data)
  \/ \E w \in Workers : Online(w) /\ UNCHANGED valueVars
  \/ \E w \in Workers : HandleReply(w) /\ UNCHANGED valueVars
  \/ \E w \in Workers : ExecutorReceive(w) /\ UNCHANGED valueVars
  \/ \E w \in Workers : \E job \in jobs[w], export \in ProcessorExports, product \in Products :
       ExecutorImportsFileProcessor(w, job, export, product)

ProcessorSpec == Init /\ [][NextProcessor]_vars

\* C21: an ImportFileProcessor request registers a processor under its
\* moduleUID only on success: without data the exported function, with data the
\* function the factory returned; when the export is not a function, the
\* factory throws or its result is not a function, nothing is registered under
\* the moduleUID and the reply is an error, not fileProcessorImported
C21_RegistersOnlyOnSuccess ==
  \A i \in DOMAIN imports : \A w \in Workers : \A f \in factories[w] :
    f.id = imports[i].id[w] =>
      LET uid == imports[i].moduleUID
          entries == {e \in registered[w] : e.moduleUID = uid}
          success == f.export = "function" /\ (f.data = Undefined \/ f.state = "function")
      IN /\ f.data = importData[i]
         /\ f.data = Undefined => f.state = "none"
         /\ imports[i].replied[w] # "none" => imports[i].replied[w] = f.reply
         /\ IF success
              THEN /\ f.reply = "fileProcessorImported"
                   /\ uid \in processors[w]
                   /\ entries = {[moduleUID |-> uid,
                                  processor |-> IF f.data = Undefined THEN "export"
                                                ELSE "product"]}
              ELSE /\ f.reply = "error"
                   /\ uid \notin processors[w]
                   /\ entries = {}

C21_Witness ==
  \E i \in DOMAIN imports, w \in Workers, v \in Workers :
    /\ \E f \in factories[w] :
         /\ f.id = imports[i].id[w] /\ f.data # Undefined /\ f.state = "function"
         /\ [moduleUID |-> imports[i].moduleUID, processor |-> "product"] \in registered[w]
    /\ \E f \in factories[v] :
         /\ f.id = imports[i].id[v] /\ f.state = "object"
         /\ imports[i].replied[v] = "error"
         /\ imports[i].moduleUID \notin processors[v]

\* ------------------------------------------------------------------ run transport
\* the changed files a run can carry: created or deleted, with contents
ChangedFiles ==
  {ChangedFile("file.txt", change, Buffer(length)) :
     change \in {"created", "deleted"}, length \in {0, 1}}

\* the runs a caller can give to a processor
Runs ==
  {Run(dev, debug, changedFiles) :
     dev \in BOOLEAN, debug \in BOOLEAN,
     changedFiles \in UNION {[1..n -> ChangedFiles] : n \in 0..MaxChanged}}

NextRun ==
  \/ \E w \in Workers :
       Online(w) /\ lastLog' = NoLog
                 /\ UNCHANGED <<runs, runClones, logReplies, loggers, fileVars, errorVars,
                                moduleVars, graphVars, replyVars, channelVars>>
  \/ \E w \in Workers, run \in Runs : WorkerProcessFile(w, run)
  \/ \E r \in 1..MaxRuns : ExecutorCreateRun(r)

RunSpec == Init /\ [][NextRun]_vars

\* the fields of a run other than its logger and its changed files
DataFields(run) == <<run.cwd, run.concurrency, run.dev, run.debug, run.full, run.partial>>

\* C22: the run sent with a ProcessFile message has the data fields of the
\* caller's run, no log (undefined), and each changed file with its fields but
\* with contents undefined; the caller's run, its log and its changed files are
\* as they were given; the run the Executor makes of it has the same data
\* fields and a new log bound to the id of the message
C22_RunTransport ==
  \A r \in DOMAIN runs :
    LET given == runs[r].given
        sentRun == runs[r].run
    IN /\ DataFields(sentRun) = DataFields(given)
       /\ sentRun.log = UndefinedValue
       /\ Len(sentRun.changedFiles) = Len(given.changedFiles)
       /\ \A k \in DOMAIN given.changedFiles :
            /\ sentRun.changedFiles[k].path = given.changedFiles[k].path
            /\ sentRun.changedFiles[k].change = given.changedFiles[k].change
            /\ sentRun.changedFiles[k].contents = UndefinedValue
       /\ runs[r].caller = given
       /\ given.log = Logger("caller", 0)
       /\ \A w \in Workers : \A run \in runClones[w] :
            run.log.messageId = runs[r].id =>
              /\ w = runs[r].worker
              /\ run.log = Logger("executor", runs[r].id)
              /\ DataFields(run) = DataFields(given)
              /\ Len(run.changedFiles) = Len(given.changedFiles)

C22_Witness ==
  \E r \in DOMAIN runs :
    /\ runs[r].given.changedFiles # <<>>
    /\ runs[r].given.changedFiles[1].contents = Buffer(1)
    /\ runs[r].run.changedFiles[1].contents = UndefinedValue
    /\ runs[r].given.debug /\ runs[r].given.dev
    /\ \E run \in runClones[runs[r].worker] : run.log.messageId = runs[r].id

\* ------------------------------------------------------------------ clone()
defaultDepth == 5

\* the objects a value refers to: each is a plain object ({ name: "foo" }) or an
\* instance of a class (its prototype is not Object.prototype)
Objects == 1..MaxObjects

ObjectKinds == {"plain", "instance"}

\* the value given to clone(): an object { foo, array: [item], set: Set([member]),
\* map: Map([["key", value]]) }, each of the four positions referring to one of
\* the objects
Positions == {"foo", "array", "set", "map"}

Graphs ==
  {[depth |-> defaultDepth, kinds |-> kinds, refs |-> refs] :
     kinds \in [Objects -> ObjectKinds], refs \in [Positions -> Objects]}

\* what a position of the result refers to: the object itself, a copy made for
\* this position, or undefined
Same(object) == [is |-> "same", object |-> object, position |-> "none"]
Copy(object, position) == [is |-> "copy", object |-> object, position |-> position]
NotDefined == [is |-> "undefined", object |-> 0, position |-> "none"]

\* isCloneable(value, depth) of one of the objects: its only property is a string
isCloneableObject(graph, object, depth) ==
  IF graph.kinds[object] # "plain" THEN FALSE
  ELSE depth > 0

\* isCloneable(value, depth) of the array, the set or the map at a position:
\* every item is cloneable, at the same depth
isCloneableItems(graph, position, depth) ==
  isCloneableObject(graph, graph.refs[position], depth)

\* isCloneable(value, depth) of the value itself, a plain object
isCloneable(graph, depth) ==
  /\ depth > 0
  /\ isCloneableObject(graph, graph.refs["foo"], depth - 1)
  /\ \A position \in Positions \ {"foo"} : isCloneableItems(graph, position, depth - 1)

\* clone(value, depth) of one of the objects, met at a position: the object
\* itself when it is cloneable, else a new object made by this call
cloneObject(graph, position, depth) ==
  IF isCloneableObject(graph, graph.refs[position], depth)
  THEN Same(graph.refs[position])
  ELSE Copy(graph.refs[position], position)

\* clone(value, depth) of the array, set or map at a position: what its item
\* is in the result
cloneItems(graph, position, depth) ==
  IF isCloneableItems(graph, position, depth)
  THEN Same(graph.refs[position])
  ELSE cloneObject(graph, position, depth)

\* clone(value, depth) of the value itself: what each position refers to
clone(graph, depth) ==
  IF isCloneable(graph, depth)
  THEN [position \in Positions |-> Same(graph.refs[position])]
  ELSE [position \in Positions |->
          IF depth > 0
          THEN IF position = "foo"
               THEN cloneObject(graph, position, depth - 1)
               ELSE cloneItems(graph, position, depth - 1)
          ELSE NotDefined]

InitGraph ==
  /\ InitProgram
  /\ InitNoFile /\ InitNoError /\ InitNoRun /\ InitNoModule /\ InitNoReply /\ InitChannel
  /\ heap \in Graphs
  /\ cloned = NotCloned

\* clone(value) is called
Clone ==
  /\ cloned = NotCloned
  /\ cloned' = [state |-> "cloned", at |-> clone(heap, heap.depth)]
  /\ UNCHANGED <<heap, programVars, lastCall, fileVars, errorVars, logVars, moduleVars, replyVars, channelVars>>

NextGraph == Clone

GraphSpec == InitGraph /\ [][NextGraph]_vars

\* C24: two positions of a value that refer to the same object refer to one
\* and the same object in clone(value), whether the object is cloneable or is
\* degraded to a plain copy
C24_SharingPreserved ==
  cloned.state = "cloned" =>
    \A p, q \in Positions :
      heap.refs[p] = heap.refs[q] => cloned.at[p] = cloned.at[q]

\* ------------------------------------------------------------------ replies
otherValueVars == <<fileVars, errorVars, logVars, moduleVars, graphVars, channelVars>>

\* what a plugin does next while Executor.processFile runs it: it produces a
\* value with a path, logs through the run, produces a value without a path,
\* throws, or its output ends
PluginSteps == {"file", "log", "nopath", "throws", "done"}

\* a processFile that posts a file reply for whatever value the plugin produced
processFileUnchecked(step) ==
  IF step \in {"file", "nopath"} THEN "file"
  ELSE IF step = "log" THEN "log"
  ELSE IF step = "done" THEN "finished"
  ELSE "error"

\* Executor.processFile and the catch of Messenger._handleMessage: the type of
\* the reply posted for a step of the plugin (normalizeFileInfo throws when the
\* value has no path)
processFileStep(step) ==
  IF step = "file" THEN "file"
  ELSE IF step = "log" THEN "log"
  ELSE IF step = "done" THEN "finished"
  ELSE "error"

\* the replies that this step adds to the port of worker w, as they are
\* remembered: posted while the request `handling` was handled, because of `cause`
Posting(w, handling, cause) ==
  [replied EXCEPT ![w] = @ \o
     [k \in 1..(Len(toCtrl'[w]) - Len(toCtrl[w])) |->
        [reply |-> toCtrl'[w][Len(toCtrl[w]) + k], handling |-> handling, cause |-> cause]]]

\* Executor.processFile, one step of the plugin
ExecutorProcessesFile(w, job, step) ==
  /\ ExecutorProcessFile(w, job, processFileStep(step))
  /\ replied' = Posting(w, job.id, step)

NextReply ==
  \/ importFileProcessor /\ UNCHANGED valueVars
  \/ \E i \in 1..MaxImports : roundRobinCounter < MaxStreams /\ Invoke(i) /\ UNCHANGED valueVars
  \/ \E c \in 1..MaxCalls : CallerNext(c) /\ UNCHANGED valueVars
  \/ \E w \in Workers : Online(w) /\ UNCHANGED valueVars
  \/ \E w \in Workers : HandleReply(w) /\ UNCHANGED valueVars
  \/ \E w \in Workers : ExecutorReceive(w) /\ UNCHANGED valueVars
  \/ \E w \in Workers : \E job \in jobs[w], ok \in BOOLEAN :
       /\ ExecutorImportFileProcessor(w, job, ok)
       /\ replied' = Posting(w, job.id, "import")
       /\ UNCHANGED otherValueVars
  \/ \E w \in Workers : \E job \in jobs[w], step \in PluginSteps :
       ExecutorProcessesFile(w, job, step) /\ UNCHANGED otherValueVars

ReplySpec == Init /\ [][NextReply]_vars

\* the file, finished and error replies posted to request m by the Executor of w
RepliesTo(w, m) ==
  SelectSeq(replied[w],
            LAMBDA r : r.reply.to = m /\ r.reply.type \in {"file", "finished", "error"})

\* the processFile requests that were sent to worker w
ProcessFileRequests(w) == {p.id : p \in {q \in posted : q.type = "processFile" /\ q.worker = w}}

\* the request m is still on its way to the Executor of w, or is being handled
Unfinished(w, m) ==
  \/ \E k \in DOMAIN toExec[w] : toExec[w][k].id = m
  \/ \E job \in jobs[w] : job.id = m

\* C25: for every ProcessFile request the Executor posts one file reply per
\* valid output of the plugin, in order, then exactly one terminal reply:
\* finished when the output ended, error when the plugin threw or produced a
\* value without a path; nothing of type file, finished or error follows the
\* terminal reply
C25_RepliesOfProcessFile ==
  \A w \in Workers : \A m \in ProcessFileRequests(w) :
    LET rs == RepliesTo(w, m)
        n == Len(rs)
    IN /\ \A k \in 1..n :
            /\ k < n => rs[k].reply.type = "file"
            /\ rs[k].reply.type = "file" <=> rs[k].cause = "file"
            /\ rs[k].reply.type = "finished" <=> rs[k].cause = "done"
            /\ rs[k].reply.type = "error" <=> rs[k].cause \in {"throws", "nopath"}
            /\ rs[k].reply.type = "file" =>
                 k <= Len(Files(produced[m])) /\ rs[k].reply.file = Files(produced[m])[k]
       /\ Len(Files(produced[m])) = Cardinality({k \in 1..n : rs[k].reply.type = "file"})
       /\ Unfinished(w, m) => \A k \in 1..n : rs[k].reply.type = "file"
       /\ ~Unfinished(w, m) => n > 0 /\ rs[n].reply.type \in {"finished", "error"}

C25_Witness ==
  \E w \in Workers : \E m \in ProcessFileRequests(w) :
    LET rs == RepliesTo(w, m)
    IN /\ Len(rs) = 3
       /\ rs[1].reply.type = "file" /\ rs[2].reply.type = "file"
       /\ rs[3].reply.type = "error" /\ rs[3].cause = "nopath"
       /\ ~Unfinished(w, m)

\* ------------------------------------------------------------------ one Messenger
\* everything but the Messenger followed in detail and the messageCounter
channelRest ==
  <<poolVars, isTerminated, waitUntilOnline, pending, completed, thread, terminations,
    toCtrl, execVars, imports, calls, posted, sink, lastCall,
    fileVars, errorVars, logVars, moduleVars, graphVars, replyVars>>

\* the ids a reply can name: those of the messages, and one that is never sent
ReplyIds == 1..(MaxMessages + 1)

ReplyTypes == {"file", "finished", "error"}

\* the promise made by _awaitReply(id), with its resolve and reject
Waiter(id) == [id |-> id, state |-> "unsettled", settled |-> 0, outcome |-> "none"]

\* PendingMessage.resolve(reply): the first call settles the promise
resolve(waiter, reply) ==
  IF waiter.state = "unsettled"
  THEN [waiter EXCEPT !.state = "resolved", !.settled = 1, !.outcome = reply.type]
  ELSE [waiter EXCEPT !.settled = @ + 1]

\* PendingMessage.reject(reason)
reject(waiter, reason) ==
  IF waiter.state = "unsettled"
  THEN [waiter EXCEPT !.state = "rejected", !.settled = 1, !.outcome = reason]
  ELSE [waiter EXCEPT !.settled = @ + 1]

\* an _awaitReply that files every waiter under the first message id
awaitReplyFirstKey(table, id, waiter) ==
  [i \in DOMAIN table \cup {1} |-> IF i = 1 THEN waiter ELSE table[i]]

\* Messenger._awaitReply: this._pending.set(id, { resolve, reject })
awaitReply(table, id, waiter) ==
  [i \in DOMAIN table \cup {id} |-> IF i = id THEN waiter ELSE table[i]]

\* this._pending.delete(id)
delete(table, id) == [i \in DOMAIN table \ {id} |-> table[i]]

\* an includes that finds nothing
includesNothing(array, id) == FALSE

\* this._completed.includes(id)
includes(array, id) == \E k \in DOMAIN array : array[k] = id

\* a generator of postMessageWithReplies: the message it sent, where it stands,
\* and the waiter whose reply it takes next
Generator(id, waiter) == [id |-> id, phase |-> "awaiting", waiter |-> waiter]

\* Messenger.postMessageAsync (withReplies = FALSE), or the first next() of a
\* generator of Messenger.postMessageWithReplies (withReplies = TRUE)
PostMessage(withReplies) ==
  /\ messageCounter < MaxMessages
  /\ LET id == messageCounter + 1
         waiter == Len(waiters) + 1
     IN /\ messageCounter' = id
        /\ waiters' = Append(waiters, Waiter(id))
        /\ pendingWaiters' = awaitReply(pendingWaiters, id, waiter)
        /\ generators' = IF withReplies THEN Append(generators, Generator(id, waiter))
                         ELSE generators
        /\ lastStep' = Step("postMessage", id, FALSE)
  /\ UNCHANGED <<completedIds, inbox, errorEvents, channelRest>>

\* the thread posts a reply to the Messenger
ReplyArrives(to, type) ==
  /\ Len(completedIds) + Len(errorEvents) + Len(inbox) < MaxReplies
  /\ inbox' = Append(inbox, [to |-> to, type |-> type])
  /\ lastStep' = Step("message", to, to \in DOMAIN pendingWaiters)
  /\ UNCHANGED <<messageCounter, waiters, pendingWaiters, completedIds, generators,
                 errorEvents, channelRest>>

\* the generators that are waiting for the given waiter to settle
Awaiting(waiter) ==
  {g \in DOMAIN generators : generators[g].phase = "awaiting" /\ generators[g].waiter = waiter}

\* Messenger._handleMessage (controller side), with what the code waiting for the
\* reply does before the next event is handled
HandleMessage ==
  /\ inbox # <<>>
  /\ LET reply == Head(inbox)
         found == reply.to \in DOMAIN pendingWaiters
         message == pendingWaiters[reply.to]
         settled == [waiters EXCEPT ![message] =
                       IF reply.type = "error" THEN reject(@, "error") ELSE resolve(@, reply)]
         next == Len(waiters) + 1
         goesOn == Awaiting(message) # {} /\ reply.type \notin {"error", "finished"}
     IN /\ inbox' = Tail(inbox)
        /\ lastStep' = Step("_handleMessage", reply.to, found)
        /\ IF found
             THEN /\ completedIds' = Append(completedIds, reply.to)
                  /\ waiters' = IF goesOn THEN Append(settled, Waiter(reply.to)) ELSE settled
                  /\ pendingWaiters' =
                       IF goesOn THEN awaitReply(delete(pendingWaiters, reply.to), reply.to, next)
                       ELSE delete(pendingWaiters, reply.to)
                  /\ generators' =
                       [g \in DOMAIN generators |->
                          IF g \notin Awaiting(message) THEN generators[g]
                          ELSE IF reply.type = "error" THEN [generators[g] EXCEPT !.phase = "thrown"]
                          ELSE IF reply.type = "finished"
                            THEN [generators[g] EXCEPT !.phase = "returned"]
                          ELSE [generators[g] EXCEPT !.phase = "yielded", !.waiter = next]]
                  /\ errorEvents' = errorEvents
             ELSE /\ errorEvents' = IF includes(completedIds, reply.to) THEN errorEvents
                                    ELSE Append(errorEvents, reply.to)
                  /\ UNCHANGED <<completedIds, waiters, pendingWaiters, generators>>
  /\ UNCHANGED <<messageCounter, channelRest>>

\* the caller resumes a generator of postMessageWithReplies at its yield
GeneratorNext(g) ==
  /\ g \in DOMAIN generators
  /\ generators[g].phase = "yielded"
  /\ LET nextReply == waiters[generators[g].waiter]
         id == generators[g].id
         next == Len(waiters) + 1
     IN IF nextReply.state = "unsettled"
          THEN /\ generators' = [generators EXCEPT ![g].phase = "awaiting"]
               /\ UNCHANGED <<waiters, pendingWaiters>>
        ELSE IF nextReply.state = "rejected"
          THEN /\ generators' = [generators EXCEPT ![g].phase = "thrown"]
               /\ UNCHANGED <<waiters, pendingWaiters>>
        ELSE IF nextReply.outcome = "finished"
          THEN /\ generators' = [generators EXCEPT ![g].phase = "returned"]
               /\ UNCHANGED <<waiters, pendingWaiters>>
        ELSE /\ generators' = [generators EXCEPT ![g].waiter = next]
             /\ waiters' = Append(waiters, Waiter(id))
             /\ pendingWaiters' = awaitReply(pendingWaiters, id, next)
  /\ lastStep' = Step("next", generators[g].id, generators[g].id \in DOMAIN pendingWaiters)
  /\ UNCHANGED <<messageCounter, completedIds, inbox, errorEvents, channelRest>>

\* the entries of _pending as rejectAllPendingMessages copies them, in the
\* order in which they were registered
entries(table) ==
  LET inTable == {table[id] : id \in DOMAIN table}
  IN [k \in 1..Cardinality(inTable) |-> Nth(inTable, k)]

\* a rejectAllPendingMessages that clears the table and rejects nobody
rejectAllSilently(currentlyPending) == waiters

\* Messenger.rejectAllPendingMessages: the waiters after every pending one was
\* rejected
rejectAll(currentlyPending) ==
  [k \in DOMAIN waiters |->
     IF \E n \in DOMAIN currentlyPending : currentlyPending[n] = k
       THEN reject(waiters[k], "rejectAll") ELSE waiters[k]]

\* Messenger.rejectAllPendingMessages(error), with what the code waiting for
\* the rejected promises does before the next event is handled
RejectAllPendingMessages ==
  /\ LET currentlyPending == entries(pendingWaiters)
     IN /\ pendingWaiters' = <<>>
        /\ completedIds' = completedIds \o
             [n \in DOMAIN currentlyPending |-> waiters[currentlyPending[n]].id]
        /\ waiters' = rejectAll(currentlyPending)
        /\ generators' =
             [g \in DOMAIN generators |->
                IF /\ generators[g].phase = "awaiting"
                   /\ waiters[generators[g].waiter].state = "unsettled"
                   /\ waiters'[generators[g].waiter].state = "rejected"
                  THEN [generators[g] EXCEPT !.phase = "thrown"] ELSE generators[g]]
  /\ lastStep' = Step("rejectAllPendingMessages", 0, FALSE)
  /\ UNCHANGED <<messageCounter, inbox, errorEvents, channelRest>>

NextChannel ==
  \/ \E withReplies \in BOOLEAN : PostMessage(withReplies)
  \/ \E to \in ReplyIds, type \in ReplyTypes : ReplyArrives(to, type)
  \/ HandleMessage
  \/ \E g \in 1..MaxMessages : GeneratorNext(g)
  \/ RejectAllPendingMessages

ChannelSpec == Init /\ [][NextChannel]_vars

\* the waiters that are in _pending
PendingWaiters == {pendingWaiters[id] : id \in DOMAIN pendingWaiters}

\* the ids whose waiter was rejected by rejectAllPendingMessages
DrainedIds == {waiters[k].id : k \in {n \in DOMAIN waiters : waiters[n].outcome = "rejectAll"}}

\* this step is _handleMessage for a reply whose id has no waiter in _pending
HandlesNotPending ==
  /\ inbox # <<>>
  /\ lastStep'.op = "_handleMessage"
  /\ inbox' = Tail(inbox)
  /\ Head(inbox).to \notin DOMAIN pendingWaiters

\* C26: a reply whose id is neither pending nor in the completed history
\* settles no waiter, leaves the pending table as it is and causes exactly one
\* error event; a reply whose id is not pending but is in the completed history
\* is ignored without an error event
C26_RepliesWithoutWaiter ==
  [][HandlesNotPending =>
       /\ waiters' = waiters
       /\ pendingWaiters' = pendingWaiters
       /\ generators' = generators
       /\ completedIds' = completedIds
       /\ IF \E k \in DOMAIN completedIds : completedIds[k] = Head(inbox).to
            THEN errorEvents' = errorEvents
            ELSE errorEvents' = Append(errorEvents, Head(inbox).to)]_vars

C26_Witness ==
  /\ lastStep.op = "_handleMessage"
  /\ ~lastStep.wasPending
  /\ \E k \in DOMAIN completedIds : completedIds[k] = lastStep.to
  /\ errorEvents = <<MaxMessages + 1>>
  /\ \E k \in DOMAIN waiters : waiters[k].state = "unsettled"

\* C27: rejectAllPendingMessages empties the pending table in one step and
\* rejects every waiter that was in it with its error, each exactly once, and
\* no other; a reply that arrives later for an id it drained settles nothing
\* and raises no error event
C27_RejectAllDrains ==
  [][/\ lastStep'.op = "rejectAllPendingMessages" =>
          /\ DOMAIN pendingWaiters' = {}
          /\ Len(waiters') = Len(waiters)
          /\ \A k \in DOMAIN waiters :
               IF k \in PendingWaiters
                 THEN /\ waiters[k].state = "unsettled"
                      /\ waiters'[k].state = "rejected"
                      /\ waiters'[k].outcome = "rejectAll"
                      /\ waiters'[k].settled = 1
                 ELSE waiters'[k] = waiters[k]
     /\ (inbox # <<>> /\ lastStep'.op = "_handleMessage" /\ Head(inbox).to \in DrainedIds) =>
          /\ waiters' = waiters
          /\ pendingWaiters' = pendingWaiters
          /\ errorEvents' = errorEvents]_vars

C27_Witness ==
  /\ lastStep.op = "_handleMessage"
  /\ lastStep.to \in DrainedIds
  /\ Cardinality({k \in DOMAIN waiters : waiters[k].outcome = "rejectAll"}) >= 2
  /\ errorEvents = <<>>

\* C28: no message id has a waiter in the pending table while it is in the
\* completed history
C28_PendingXorCompleted ==
  \A id \in DOMAIN pendingWaiters : ~\E k \in DOMAIN completedIds : completedIds[k] = id

\* C29: a waiter that is not yet resolved or rejected is the one registered in
\* the pending table under its id, so no registration has replaced it, and no
\* id has two unsettled waiters
C29_NoWaiterOverwritten ==
  \A k \in DOMAIN waiters :
    waiters[k].state = "unsettled" =>
      /\ waiters[k].id \in DOMAIN pendingWaiters
      /\ pendingWaiters[waiters[k].id] = k

C29_Witness ==
  \E k, n \in DOMAIN waiters :
    /\ k < n
    /\ waiters[k].id = waiters[n].id
    /\ waiters[k].state = "resolved"
    /\ waiters[n].state = "unsettled"
    /\ pendingWaiters[waiters[n].id] = n
    /\ Cardinality(DOMAIN pendingWaiters) = 2

\* C30: message ids are positive and strictly increase in send order across
\* the workers, so no two messages share an id; every reply an Executor posts
\* while it handles the request m carries to = m
C30_IdsAndReplyAddress ==
  [][/\ \A p \in posted' : p.id >= 1 /\ p.id <= messageCounter'
     /\ \A p \in posted' \ posted : p.id > messageCounter
     /\ \A p, q \in posted' : p.id = q.id => p = q
     /\ \A w \in Workers : \A i, j \in DOMAIN toExec'[w] :
          i < j => toExec'[w][i].id < toExec'[w][j].id
     /\ \A w \in Workers : \A k \in DOMAIN replied'[w] :
          /\ replied'[w][k].reply.to = replied'[w][k].handling
          /\ \E p \in posted : p.id = replied'[w][k].reply.to /\ p.worker = w]_vars

C30_Witness ==
  /\ \E p, q \in posted : p.worker # q.worker /\ p.type = q.type
  /\ \E w \in Workers : \E i, j, k \in DOMAIN replied[w] :
       /\ replied[w][i].reply.type = "fileProcessorImported"
       /\ replied[w][j].reply.type = "file"
       /\ replied[w][k].reply.type = "finished"
       /\ replied[w][j].reply.to = replied[w][k].reply.to
       /\ replied[w][i].reply.to < replied[w][j].reply.to

\* ------------------------------------------------------------------ termination
\* Worker.terminate() is called in this step on the worker w, which was not
\* terminated
Terminates(w) == terminations'[w] > terminations[w]

\* C31: terminate() on a worker that is not terminated marks it terminated and
\* rejects every pending request of the worker before the thread is asked to
\* terminate, so that no request that was pending is resolved by a reply
\* afterwards
C31_TerminateRejectsPending ==
  [][\A w \in Workers : Terminates(w) => isTerminated'[w] /\ pending'[w] = {}]_vars

IsOnline(w) == waitUntilOnline[w].state = "resolved"

\* C33: a worker handle that is terminated stays terminated, does not become
\* online after it was terminated, and the exit that follows an intentional
\* terminate() is not reported as an unexpected exit
C33_TerminatedIsAbsorbing ==
  [][\A w \in Workers :
       /\ isTerminated[w] => isTerminated'[w]
       /\ (isTerminated[w] /\ ~IsOnline(w)) => ~IsOnline(w)'
       /\ (terminations[w] > 0 /\ thread[w] # "exited" /\ thread'[w] = "exited")
            => sink' = sink]_vars

\* ------------------------------------------------------------------ online gate
\* the gate of worker w was rejected by an "error" or "exit" event
IsRejected(w) == waitUntilOnline[w].state = "rejected"

\* C34: a message is posted only to a worker whose gate was opened by "online";
\* the gate settles once, by the first of online, error and exit; when error or
\* exit came first every operation on that worker has failed and no message was
\* posted to it
C34_OnlineGate ==
  [][\A w \in Workers :
       /\ waitUntilOnline[w].state # "pending" => waitUntilOnline'[w] = waitUntilOnline[w]
       /\ \A m \in posted' : m.worker = w => IsOnline(w)'
       /\ IsRejected(w)' =>
            /\ pending'[w] = {}
            /\ \A i \in DOMAIN imports' :
                 imports'[i].st[w] = "failed" /\ imports'[i].result = "rejected"
            /\ \A c \in DOMAIN calls' :
                 calls'[c].worker = w => calls'[c].phase \in {"created", "failed"}]_vars

\* an import that waited at the gate of a worker failed when the gate was
\* rejected, and the other worker came online and was sent a message
C34_Witness ==
  \E w \in Workers :
    /\ IsRejected(w)
    /\ \E i \in DOMAIN imports : imports[i].st[w] = "failed" /\ imports[i].id[w] = 0
    /\ \E v \in Workers \ {w} : IsOnline(v) /\ \E m \in posted : m.worker = v

\* ------------------------------------------------------------------ kept loggers
\* the requests whose logger plugin code on worker w can hold: the processFile
\* requests that Executor.processFile has received and handed, with the run made
\* by createRun, to a registered processor
LoggersIssued(w) ==
  {m.id : m \in {q \in posted : /\ q.worker = w
                                /\ q.type = "processFile"
                                /\ q.moduleUID \in processors[w]
                                /\ \A k \in DOMAIN toExec[w] : toExec[w][k].id # q.id}}

\* the log replies that worker w posted outside the handling of any request
KeptLogCalls(w) == {k \in DOMAIN replied[w] : replied[w][k].cause = "kept log"}

\* plugin code that kept the log of the run of request m calls it, at any time
\* after it was given the run: the closure made by createLogger posts a log
\* reply addressed to m
KeptLogCall(w, m) ==
  /\ thread[w] = "running"
  /\ m \in LoggersIssued(w)
  /\ Cardinality(KeptLogCalls(w)) < MaxLogs
  /\ toCtrl' = postReply(w, Reply(m, "log", 0, NoError))
  /\ replied' = Posting(w, 0, "kept log")
  /\ lastCall' = NoCall
  /\ UNCHANGED <<poolVars, messageCounter, isTerminated, waitUntilOnline, pending, completed,
                 thread, terminations, toExec, processors, jobs, produced, imports, calls,
                 posted, sink>>

NextKeptLog ==
  \/ importFileProcessor /\ UNCHANGED valueVars
  \/ \E i \in 1..MaxImports : roundRobinCounter < MaxStreams /\ Invoke(i) /\ UNCHANGED valueVars
  \/ \E c \in 1..MaxCalls : CallerNext(c) /\ UNCHANGED valueVars
  \/ \E w \in Workers : Online(w) /\ UNCHANGED valueVars
  \/ \E w \in Workers : HandleReply(w) /\ UNCHANGED valueVars
  \/ \E w \in Workers : ExecutorReceive(w) /\ UNCHANGED valueVars
  \/ \E w \in Workers : \E job \in jobs[w], ok \in BOOLEAN :
       /\ ExecutorImportFileProcessor(w, job, ok)
       /\ replied' = Posting(w, job.id, "import")
       /\ UNCHANGED otherValueVars
  \/ \E w \in Workers : \E job \in jobs[w], step \in PluginSteps :
       ExecutorProcessesFile(w, job, step) /\ UNCHANGED otherValueVars
  \/ \E w \in Workers : \E m \in LoggersIssued(w) : KeptLogCall(w, m) /\ UNCHANGED otherValueVars

KeptLogSpec == Init /\ [][NextKeptLog]_vars

\* C35: the Executor posts no log reply addressed to the request m after it has
\* posted the finished or error reply of m
C35_NoLogAfterTerminalReply ==
  \A w \in Workers : \A m \in ProcessFileRequests(w) :
    \A k \in DOMAIN replied[w] : \A l \in DOMAIN replied[w] :
      (/\ k < l
       /\ replied[w][k].reply.to = m
       /\ replied[w][k].reply.type \in {"finished", "error"})
        => ~(replied[w][l].reply.to = m /\ replied[w][l].reply.type = "log")

\* ------------------------------------------------------------------ moduleUID
\* the importFileProcessor calls that the pool accepted, in the order of the calls
ProcessorImports == {i \in DOMAIN imports : imports[i].type = "importFileProcessor"}

\* C36: every importFileProcessor call that the pool accepted was given a
\* moduleUID that is positive and greater than every moduleUID given before,
\* whether or not the earlier import succeeded, so no two share one; the counter
\* stands at the last one given, and importModule is given none
C36_ModuleUIDsIncrease ==
  /\ \A i \in ProcessorImports :
       /\ imports[i].moduleUID \in 1..moduleCounter
       /\ \A j \in ProcessorImports : i < j => imports[i].moduleUID < imports[j].moduleUID
  /\ \A i \in DOMAIN imports \ ProcessorImports : imports[i].moduleUID = 0
  /\ moduleCounter = Cardinality(ProcessorImports)

\* a second processor was imported after the import of the first had failed
C36_Witness ==
  /\ ProcessorImports = {1, 2}
  /\ imports[1].result = "rejected"
  /\ imports[2].moduleUID = 2

\* ------------------------------------------------------------------ processor registry
\* several processors are imported while the proxies of those already imported
\* are invoked and their sequences advanced
NextRegistry ==
  \/ importFileProcessorUpTo(MaxPendingImports) /\ UNCHANGED valueVars
  \/ \E i \in 1..MaxPendingImports :
       roundRobinCounter < MaxStreams /\ Invoke(i) /\ UNCHANGED valueVars
  \/ \E c \in 1..MaxCalls : CallerNext(c) /\ UNCHANGED valueVars
  \/ \E w \in Workers : Online(w) /\ UNCHANGED valueVars
  \/ \E w \in Workers : HandleReply(w) /\ UNCHANGED valueVars
  \/ \E w \in Workers : ExecutorReceive(w) /\ UNCHANGED valueVars
  \/ \E w \in Workers : \E job \in jobs[w], ok \in BOOLEAN :
       ExecutorImportFileProcessor(w, job, ok) /\ UNCHANGED valueVars
  \/ \E w \in Workers : \E job \in jobs[w], out \in {"file", "log", "finished", "error"} :
       ExecutorProcessFile(w, job, out) /\ UNCHANGED valueVars

RegistrySpec == Init /\ [][NextRegistry]_vars

\* the ProcessFile messages on their way to the Executor of w or being handled by it
ProcessFileAt(w) ==
  {toExec[w][k] : k \in {l \in DOMAIN toExec[w] : toExec[w][l].type = "processFile"}}
    \cup {job \in jobs[w] : job.type = "processFile"}

\* C37: the moduleUID of every ProcessFile message that was sent to a worker is
\* in the processor registry of that worker's Executor, from before the message
\* arrives on, so the lookup of Executor.processFile finds a processor
C37_RegistryNeverMisses ==
  \A w \in Workers : \A m \in ProcessFileAt(w) : m.moduleUID \in processors[w]

\* a ProcessFile message of the first processor is handled on a worker whose
\* Executor is still importing the second processor
C37_Witness ==
  \E w \in Workers :
    /\ \E job \in jobs[w] : job.type = "processFile" /\ job.moduleUID = 1
    /\ \E job \in jobs[w] : job.type = "importFileProcessor" /\ job.moduleUID = 2
    /\ 2 \notin processors[w]

\* ------------------------------------------------------------------ after the exit
\* C38: once the exit event of a worker has been handled, the pending table of
\* that worker is empty, in that state and in every later one
C38_NoWaiterAfterExit ==
  \A w \in Workers : thread[w] = "exited" => pending[w] = {}

\* ------------------------------------------------------------------ lazy sequences
\* the values that neither the pool nor the file transfer touches
restVars == <<errorVars, logVars, moduleVars, graphVars, replyVars, channelVars>>

\* the body of Worker.processFile from the gate on: cloneFile(file), then the
\* post of the message with the transfer list, for the caller's file
TransfersFile ==
  postFile("main", "worker", cloneFile(files["main"]).clone, cloneFile(files["main"]).transferList)

\* the caller asks the sequence c, made for the caller's file, for its next item
ProcessFileNext(c) ==
  /\ CallerNext(c)
  /\ IF posted' # posted THEN TransfersFile ELSE UNCHANGED fileVars
  /\ UNCHANGED restVars

\* the "online" event; a sequence waiting at the gate then sends its file
OnlineWithFile(w) ==
  /\ Online(w)
  /\ IF CallsAtGate(w) # {} THEN TransfersFile ELSE UNCHANGED fileVars
  /\ UNCHANGED restVars

NextLazy ==
  \/ importFileProcessor /\ UNCHANGED valueVars
  \/ \E i \in 1..MaxImports : roundRobinCounter < MaxStreams /\ Invoke(i) /\ UNCHANGED valueVars
  \/ dispose /\ UNCHANGED valueVars
  \/ \E c \in 1..MaxCalls : ProcessFileNext(c)
  \/ \E w \in Workers : OnlineWithFile(w)
  \/ \E w \in Workers : HandleReply(w) /\ UNCHANGED valueVars
  \/ \E w \in Workers : ExecutorReceive(w) /\ UNCHANGED valueVars
  \/ \E w \in Workers : \E job \in jobs[w], ok \in BOOLEAN :
       ExecutorImportFileProcessor(w, job, ok) /\ UNCHANGED valueVars

LazySpec == InitClone /\ [][NextLazy]_vars

\* a processor proxy is invoked in this step and returns a sequence
Invokes == Len(calls') = Len(calls) + 1

\* the sequence c is advanced for the first time in this step
FirstAdvance(c) == c \in DOMAIN calls /\ calls[c].phase = "created" /\ calls'[c].phase # "created"

\* no sequence has been advanced
NoneAdvanced == \A c \in DOMAIN calls : calls[c].phase = "created"

\* C39: invoking a processor proxy selects the worker and advances the cursor
\* at once and does nothing else; the ProcessFile message is posted, its waiter
\* registered and the file's buffer transferred by the first advance of the
\* sequence; while no sequence has been advanced no ProcessFile message is
\* posted, no waiter of one is registered and the caller's buffer is intact
C39_ProcessFileIsLazy ==
  [][/\ Invokes =>
          /\ roundRobinCounter' = roundRobinCounter + 1
          /\ calls'[Len(calls')].worker = select
          /\ calls'[Len(calls')].phase = "created"
          /\ <<messageCounter, pending, posted, toExec, fileVars>>' =
               <<messageCounter, pending, posted, toExec, fileVars>>
     /\ NoneAdvanced' =>
          /\ ProcessFileMessages' = {}
          /\ sent' = NothingSent
          /\ ~arrayBuffers'[1].detached
          /\ files'["worker"] = NoFile
     /\ \A c \in 1..MaxCalls : FirstAdvance(c) =>
          LET w == calls[c].worker
              m == Posted(calls'[c].id, w, "processFile", calls[c].moduleUID)
          IN /\ roundRobinCounter' = roundRobinCounter
             /\ posted' = posted \cup {m} /\ m \notin posted
             /\ pending'[w] = pending[w] \cup {m.id}
             /\ Sends("main")
             /\ sent'.transferList = cloneFile(files["main"]).transferList
             /\ sent'.transferList # <<>> => arrayBuffers'[1].detached]_vars

\* two sequences were made on different workers; one was advanced and its file's
\* buffer was transferred, the other was not and has no message and no waiter
C39_Witness ==
  /\ Len(calls) = 2
  /\ roundRobinCounter = 2
  /\ calls[1].phase = "created" /\ calls[1].id = 0
  /\ calls[2].phase = "awaiting"
  /\ calls[1].worker # calls[2].worker
  /\ pending[calls[1].worker] = {}
  /\ {m.worker : m \in ProcessFileMessages} = {calls[2].worker}
  /\ sent.n = 1 /\ sent.transferList = <<1>> /\ arrayBuffers[1].detached

\* ------------------------------------------------------------------ proxies after dispose
\* C40: a processor proxy invoked after dispose() throws at the invocation: it
\* returns no sequence, posts no message to any worker, registers no waiter and
\* transfers no buffer
C40_ProxyAfterDispose ==
  [][(lastCall'.op = "processor" /\ isDisposed) =>
       /\ lastCall'.thrown # "none"
       /\ calls' = calls
       /\ <<messageCounter, posted, pending, toExec>>' = <<messageCounter, posted, pending, toExec>>
       /\ fileVars' = fileVars]_vars

\* the proxy of an import that had resolved was invoked on the disposed pool, for
\* a file whose buffer would be transferred; nothing was sent
C40_Witness ==
  /\ lastCall = Call("processor", TRUE, "TypeError")
  /\ imports[1].result = "resolved"
  /\ calls = <<>>
  /\ ProcessFileMessages = {}
  /\ cloneFile(files["main"]).transferList = <<1>>
  /\ sent = NothingSent

====
